---- MODULE Spec2Model ----
(***************************************************************************)
(* Model of django_unmanaged_assistant's create_unmanaged_tables command:  *)
(* the identifier parser, the catalog inspector, the schema/table          *)
(* materializer, the foreign-key suppression and the reconciliation        *)
(* driver (Command.handle / process_models / create_table_for_model /      *)
(* process_field).                                                         *)
(*                                                                         *)
(* Python strings are sequences of one-character strings, so that split,   *)
(* strip and concatenation are computed as the code computes them.         *)
(***************************************************************************)
EXTENDS Integers, Sequences, FiniteSets, TLC

\* ------------------------------------------------------------------------
\* Bounds of the model
\* ------------------------------------------------------------------------

\* Number of runs of the command (reconciliation passes) in one behaviour.
MaxPasses == 2

\* Number of DDL statements the database may refuse in one behaviour.
MaxFaults == 1

\* ------------------------------------------------------------------------
\* Python values
\* ------------------------------------------------------------------------

\* Python's None where a string is expected.
NoneVal == <<"<None>">>

\* Truthiness of an optional string: None and "" are falsy.
Truthy(s) == s # NoneVal /\ s # <<>>

Contains(s, c) == \E i \in 1..Len(s) : s[i] = c

\* str.strip(chars): drop leading and trailing characters that are in chars.
RECURSIVE LStrip(_, _)
LStrip(s, chars) ==
    IF s # <<>> /\ Head(s) \in chars THEN LStrip(Tail(s), chars) ELSE s

RECURSIVE RStrip(_, _)
RStrip(s, chars) ==
    IF s # <<>> /\ s[Len(s)] \in chars
    THEN RStrip(SubSeq(s, 1, Len(s) - 1), chars)
    ELSE s

Strip(s, chars) == RStrip(LStrip(s, chars), chars)

\* Index of the first occurrence of c in s, 0 when there is none.
IndexOf(s, c) ==
    IF Contains(s, c)
    THEN CHOOSE i \in 1..Len(s) : s[i] = c /\ \A j \in 1..(i - 1) : s[j] # c
    ELSE 0

\* A split at the last occurrence of c, as str.rsplit(c, 1) does.
SplitLast(s, c) ==
    IF ~Contains(s, c) THEN <<s>>
    ELSE LET i == CHOOSE k \in 1..Len(s) :
                      s[k] = c /\ \A j \in (k + 1)..Len(s) : s[j] # c
         IN  <<SubSeq(s, 1, i - 1), SubSeq(s, i + 1, Len(s))>>

\* str.split(c, 1): at most one split, at the first occurrence of c.
Split1(s, c) ==
    LET i == IndexOf(s, c)
    IN  IF i = 0 THEN <<s>>
        ELSE <<SubSeq(s, 1, i - 1), SubSeq(s, i + 1, Len(s))>>

\* str.endswith(suffix)
EndsWith(s, suffix) ==
    /\ Len(s) >= Len(suffix)
    /\ SubSeq(s, Len(s) - Len(suffix) + 1, Len(s)) = suffix

\* String literals of the source.
PUBLIC == <<"p", "u", "b", "l", "i", "c">>
DBO == <<"d", "b", "o">>
MAIN == <<"m", "a", "i", "n">>
ID_SUFFIX == <<"_", "i", "d">>

\* Result of a call that may raise: a returned value or an exception type.
Ret(v) == [raised |-> "none", value |-> v]
Raise(e) == [raised |-> e, value |-> <<>>]

\* ------------------------------------------------------------------------
\* Identifier parser
\* ------------------------------------------------------------------------

\* The vendor tags the code branches on, and one tag it knows nothing of.
Vendors == {"sqlite", "postgresql", "microsoft", "mssql", "mysql"}

\* get_default_schema answering "public" whatever the vendor.
DefaultSchemaAlwaysPublic(vendor) == PUBLIC

get_default_schema(vendor) ==
    IF vendor = "postgresql" THEN PUBLIC
    ELSE IF vendor = "microsoft" THEN DBO
    ELSE IF vendor = "sqlite" THEN MAIN
    ELSE NoneVal

\* schema.strip('"').strip("'") of lines 295-296; None has no strip.
StripQuotes(s) == Strip(Strip(s, {"\""}), {"'"})

ParseFinish(schema, table) ==
    IF schema = NoneVal THEN Raise("AttributeError")
    ELSE Ret(<<StripQuotes(schema), StripQuotes(table)>>)

parse_table_name(vendor, table_name) ==
    IF Contains(table_name, "[") /\ Contains(table_name, "]")
    THEN LET parts == Split1(table_name, ".")
         IN  IF Len(parts) < 2 THEN Raise("IndexError")
             ELSE ParseFinish(Strip(parts[1], {"[", "]"}),
                              Strip(parts[2], {"[", "]"}))
    ELSE IF Contains(table_name, ".")
    THEN LET parts == Split1(table_name, ".")
         IN  ParseFinish(parts[1], parts[2])
    ELSE ParseFinish(get_default_schema(vendor), table_name)

\* A formatting that joins schema and table with a dot and quotes neither.
FormatWithoutQuotes(vendor, schema, table) == schema \o <<".">> \o table

get_formatted_table_name(vendor, schema, table) ==
    IF vendor = "postgresql"
    THEN <<"\"">> \o schema \o <<"\"", ".", "\"">> \o table \o <<"\"">>
    ELSE IF vendor \in {"microsoft", "mssql"}
    THEN <<"[">> \o schema \o <<"]", ".", "[">> \o table \o <<"]">>
    ELSE schema \o <<".">> \o table

\* ------------------------------------------------------------------------
\* Declared models (the application's metadata registry)
\* ------------------------------------------------------------------------

\* Names used by the fixtures' models.
ID == <<"i", "d">>
ADDRESS == <<"a", "d", "d", "r", "e", "s", "s">>
ADDY == <<"a", "d", "d", "y">>
RELATED_MODEL == <<"r", "e", "l", "a", "t", "e", "d", "_", "m", "o", "d", "e", "l">>
MODEL_ID_COL == <<"m", "o", "d", "e", "l", "_", "I", "D">>

PlainField(name, db_column) ==
    [name |-> name, db_column |-> db_column, is_fk |-> FALSE,
     db_constraint |-> FALSE, on_delete |-> "n/a"]

ForeignKey(name, db_column, on_delete) ==
    [name |-> name, db_column |-> db_column, is_fk |-> TRUE,
     db_constraint |-> TRUE, on_delete |-> on_delete]

\* Model 1: unmanaged, a column override and a foreign key without override
\*          (MixedUnmanagedModelWithFkNC / MixedUnmanagedModel).
\* Model 2: unmanaged, a foreign key with an explicit column
\*          (MixedUnmanagedModelWithFk).
\* Model 3: managed, with a foreign key (MixedManagedModelWithFk).
Models == {1, 2, 3}

ModelDecl(m) ==
    IF m = 1 THEN
        [app_label |-> "mixed", managed |-> FALSE,
         fields |-> << PlainField(ID, NoneVal),
                       PlainField(ADDRESS, ADDY),
                       ForeignKey(RELATED_MODEL, NoneVal, "PROTECT") >>]
    ELSE IF m = 2 THEN
        [app_label |-> "unmanaged", managed |-> FALSE,
         fields |-> << PlainField(ID, ID),
                       ForeignKey(RELATED_MODEL, MODEL_ID_COL, "PROTECT") >>]
    ELSE
        [app_label |-> "mixed", managed |-> TRUE,
         fields |-> << PlainField(ID, NoneVal),
                       ForeignKey(RELATED_MODEL, NoneVal, "PROTECT") >>]

\* apps.get_app_configs() and each app's get_models(), in registry order.
AppConfigs == <<"mixed", "unmanaged">>

AppModels(app) == IF app = "mixed" THEN <<1, 3>> ELSE <<2>>

NumFields(m) == Len(ModelDecl(m).fields)

FieldIds == {<<m, i>> : m \in Models, i \in 1..3} \cap
            {x \in Models \X (1..3) : x[2] <= NumFields(x[1])}

\* The table identifiers a declared model may carry: bare, dotted, bracketed
\* and one whose schema part holds a character outside [A-Za-z0-9_.].
DbTables1 == { <<"t">>,
               <<"s", ".", "t">>,
               <<"[", "s", "]", ".", "[", "t", "]">>,
               <<"s", "-", ".", "t">> }

DbTables2 == { <<"u">>, <<"t">>, <<"[", "s", "]", ".", "[", "u", "]">> }

DbTable3 == <<"m">>

\* Database aliases of settings.DATABASES.
Aliases == {"default", "alternate"}

\* settings.APP_TO_DATABASE_MAPPING as a set of (app label, alias) pairs.
AppMappings == { {}, {<<"unmanaged", "alternate">>} }

\* ------------------------------------------------------------------------
\* State
\* ------------------------------------------------------------------------

VARIABLES
    vendor,               \* alias -> connection.vendor
    legacy,               \* whether the tables existed before the first run
    mapping,              \* settings.APP_TO_DATABASE_MAPPING
    db_table,             \* model -> model._meta.db_table
    fields,               \* <<model, i>> -> the field's mutable attributes
    catalog,              \* alias -> the database's schemas, tables, columns
    pc,                   \* position of the running command
    verbose,              \* self.verbose
    models_to_process,    \* self.models_to_process
    groups,               \* models_by_connection, in insertion order
    gi,                   \* index of the connection group being processed
    mi,                   \* index of the model within the group
    fi,                   \* index of the field within the model
    stack,                \* ExitStack: the entered temporary_table_name contexts
    original_fk_settings, \* create_table_for_model's saved FK settings
    parsed,               \* create_table_for_model's (schema, table)
    exc,                  \* exception in flight: [type, origin]
    saved_catalog,        \* catalog at the start of the schema-editing scope
    passNo,               \* number of runs started
    faults,               \* number of statements the database refused
    log,                  \* observation: the calls made, in order
    stderr,               \* observation: error lines written in this run
    result,               \* observation: how the last run ended
    pre,                  \* observation: metadata, catalog when the run started
    fk_before,            \* observation: FK settings before handle_foreign_keys
    pf,                   \* observation: the last process_field call
    fncall,               \* a function called on its own: name and arguments
    fnret,                \* what that call answered
    passes                \* passes sharing the process: each one's locals

confVars == <<vendor, mapping, legacy>>
metaVars == <<db_table, fields>>
runVars == <<verbose, models_to_process, groups, gi, mi, fi, stack,
             original_fk_settings, parsed, exc, saved_catalog>>
obsVars == <<passNo, faults, log, stderr, result, pre, fk_before, pf>>
callVars == <<fncall, fnret>>
raceVars == <<passes>>
vars == <<confVars, metaVars, catalog, pc, runVars, obsVars, callVars,
          raceVars>>

NoExc == [type |-> "none", origin |-> "none"]
Exc(type, origin) == [type |-> type, origin |-> origin]

EmptyCatalog == [schemas |-> {}, tables |-> {}, columns |-> {}]

\* The passes that may share the process and its model classes, and the
\* locals of a pass that has not started.
Passes == {1, 2}
NotStarted == [at |-> "off", k |-> 1, stack |-> <<>>,
               original_fk_settings |-> <<>>, met |-> FALSE]
NoPasses == [t \in Passes |-> NotStarted]

\* No function is called on its own; a call that has not answered yet.
NoCall == [fn |-> "none"]
NoRet == [raised |-> "pending"]

\* ------------------------------------------------------------------------
\* The database behind a connection
\* ------------------------------------------------------------------------

\* field.column as the ORM fixes it when the model class is built: the
\* declared db_column, else the attribute name (name + "_id" for a foreign
\* key).  create_model and add_field emit this name.
OrmColumn(m, i) ==
    LET f == ModelDecl(m).fields[i]
    IN  IF Truthy(f.db_column) THEN f.db_column
        ELSE IF f.is_fk THEN f.name \o ID_SUFFIX
        ELSE f.name

\* The database's reading of  open X close . open Y close  as (X, Y).
SqlQualified(name, open, close) ==
    IF Len(name) < 2 \/ name[1] # open THEN Raise("ProgrammingError")
    ELSE LET rest == Tail(name)
             j == IndexOf(rest, close)
             after == SubSeq(rest, j + 1, Len(rest))
         IN  IF /\ j > 0
                /\ Len(after) >= 3
                /\ after[1] = "."
                /\ after[2] = open
                /\ after[Len(after)] = close
                /\ ~Contains(SubSeq(after, 3, Len(after) - 1), close)
             THEN Ret(<<SubSeq(rest, 1, j - 1),
                        SubSeq(after, 3, Len(after) - 1)>>)
             ELSE Raise("ProgrammingError")

\* The (schema, table) a DDL statement on model._meta.db_table addresses: the
\* backend quotes the name unless it is already quoted, so on sqlite the whole
\* string is one table name, and a name rewritten by temporary_table_name is
\* read as schema and table.
BackendTable(v, name) ==
    IF v = "sqlite" THEN Ret(<<MAIN, name>>)
    ELSE IF v = "postgresql" THEN SqlQualified(name, "\"", "\"")
    ELSE IF v \in {"microsoft", "mssql"} THEN SqlQualified(name, "[", "]")
    ELSE Raise("ProgrammingError")

\* Backends whose schema-editing scope rolls its DDL back on an exception.
TransactionalDDL(v) == v \in {"sqlite", "postgresql", "microsoft"}

\* The error class of CREATE TABLE on a table that exists.
DuplicateTableError(v) ==
    IF v = "sqlite" THEN "OperationalError" ELSE "ProgrammingError"

\* cursor.fetchone() after each vendor branch of table_exists: the outcomes
\* of the call.  A vendor none of the branches names executes no query, and
\* what fetchone then does is the driver's choice: it raises or yields no row.
table_exists(v, cat, schema, table) ==
    IF v = "sqlite"
    THEN {Ret(\E t \in cat.tables : t[2] = table)}
    ELSE IF v \in {"postgresql", "microsoft"}
    THEN {Ret(<<schema, table>> \in cat.tables)}
    ELSE {Raise("ProgrammingError"), Ret(FALSE)}

column_exists(v, cat, schema, table, column_name) ==
    IF v = "sqlite"
    THEN {Ret(\E c \in cat.columns : c[2] = table /\ c[3] = column_name)}
    ELSE IF v \in {"postgresql", "microsoft"}
    THEN {Ret(<<schema, table, column_name>> \in cat.columns)}
    ELSE {Raise("ProgrammingError"), Ret(FALSE)}

\* The catalog query each lookup function hands to cursor.execute before it
\* calls cursor.fetchone: <<>> when no branch names the vendor.
TableExistsQuery(v) ==
    IF v = "sqlite" THEN <<"sqlite_master">>
    ELSE IF v \in {"postgresql", "microsoft"}
    THEN <<"INFORMATION_SCHEMA.TABLES">>
    ELSE <<>>

ColumnExistsQuery(v) ==
    IF v = "sqlite" THEN <<"pragma_table_info">>
    ELSE IF v \in {"postgresql", "microsoft"}
    THEN <<"INFORMATION_SCHEMA.COLUMNS">>
    ELSE <<>>

GetColumnTypeQuery(v) ==
    IF v = "sqlite" THEN <<"pragma_table_info">>
    ELSE IF v \in {"postgresql", "microsoft"}
    THEN <<"INFORMATION_SCHEMA.COLUMNS">>
    ELSE <<>>

\* Characters of the class [A-Za-z0-9_.]
SchemaChars ==
    {"a", "b", "c", "d", "e", "f", "g", "h", "i", "j", "k", "l", "m",
     "n", "o", "p", "q", "r", "s", "t", "u", "v", "w", "x", "y", "z",
     "A", "B", "C", "D", "E", "F", "G", "H", "I", "J", "K", "L", "M",
     "N", "O", "P", "Q", "R", "S", "T", "U", "V", "W", "X", "Y", "Z",
     "0", "1", "2", "3", "4", "5", "6", "7", "8", "9", "_", "."}

AllIn(s, chars) == \A i \in 1..Len(s) : s[i] \in chars

\* re.match(r"^[A-Za-z0-9_.]+$", schema): "$" also matches just before a
\* newline that ends the string.
SchemaNameMatches(schema) ==
    LET body == IF schema # <<>> /\ schema[Len(schema)] = "\n"
                THEN SubSeq(schema, 1, Len(schema) - 1)
                ELSE schema
    IN  body # <<>> /\ AllIn(body, SchemaChars)

\* create_schema_if_not_exists issuing the create whatever the existence
\* query of lines 94-96 answered.
CreateSchemaWithoutExistenceCheck(v, cat, schema) ==
    IF ~SchemaNameMatches(schema)
    THEN [raised |-> "ValueError", executed |-> <<>>, cat |-> cat]
    ELSE IF v = "sqlite"
    THEN [raised |-> "none", executed |-> <<>>, cat |-> cat]
    ELSE IF v = "postgresql"
    THEN [raised |-> "none",
          executed |-> << <<"CREATE SCHEMA IF NOT EXISTS", schema>> >>,
          cat |-> [cat EXCEPT !.schemas = @ \cup {schema}]]
    ELSE IF v \in {"microsoft", "mssql"}
    THEN [raised |-> "none",
          executed |-> << <<"SELECT sys.schemas", schema>>,
                          <<"CREATE SCHEMA", schema>> >>,
          cat |-> [cat EXCEPT !.schemas = @ \cup {schema}]]
    ELSE [raised |-> "NotImplementedError", executed |-> <<>>, cat |-> cat]

\* create_schema_if_not_exists without the sqlite branch of lines 80-83.
CreateSchemaNoSqliteBranch(v, cat, schema) ==
    IF ~SchemaNameMatches(schema)
    THEN [raised |-> "ValueError", executed |-> <<>>, cat |-> cat]
    ELSE IF v = "postgresql"
    THEN [raised |-> "none",
          executed |-> << <<"CREATE SCHEMA IF NOT EXISTS", schema>> >>,
          cat |-> [cat EXCEPT !.schemas = @ \cup {schema}]]
    ELSE IF v \in {"microsoft", "mssql"}
    THEN IF schema \in cat.schemas
         THEN [raised |-> "none",
               executed |-> << <<"SELECT sys.schemas", schema>> >>,
               cat |-> cat]
         ELSE [raised |-> "none",
               executed |-> << <<"SELECT sys.schemas", schema>>,
                               <<"CREATE SCHEMA", schema>> >>,
               cat |-> [cat EXCEPT !.schemas = @ \cup {schema}]]
    ELSE [raised |-> "NotImplementedError", executed |-> <<>>, cat |-> cat]

\* create_schema_if_not_exists: the exception it raises ("none" if it
\* returns), the statements it executes and the catalog it leaves, when the
\* database accepts every statement.
create_schema_if_not_exists(v, cat, schema) ==
    IF ~SchemaNameMatches(schema)
    THEN [raised |-> "ValueError", executed |-> <<>>, cat |-> cat]
    ELSE IF v = "sqlite"
    THEN [raised |-> "none", executed |-> <<>>, cat |-> cat]
    ELSE IF v = "postgresql"
    THEN [raised |-> "none",
          executed |-> << <<"CREATE SCHEMA IF NOT EXISTS", schema>> >>,
          cat |-> [cat EXCEPT !.schemas = @ \cup {schema}]]
    ELSE IF v \in {"microsoft", "mssql"}
    THEN IF schema \in cat.schemas
         THEN [raised |-> "none",
               executed |-> << <<"SELECT sys.schemas", schema>> >>,
               cat |-> cat]
         ELSE [raised |-> "none",
               executed |-> << <<"SELECT sys.schemas", schema>>,
                               <<"CREATE SCHEMA", schema>> >>,
               cat |-> [cat EXCEPT !.schemas = @ \cup {schema}]]
    ELSE [raised |-> "NotImplementedError", executed |-> <<>>, cat |-> cat]

\* schema_editor.create_model(model) on a database that accepts the
\* statement: the error it answers with, or the catalog with the table and
\* one column per field.
create_model(v, cat, m, name) ==
    LET bt == BackendTable(v, name)
    IN  IF bt.raised # "none" THEN [raised |-> bt.raised, cat |-> cat]
        ELSE IF bt.value \in cat.tables
        THEN [raised |-> DuplicateTableError(v), cat |-> cat]
        ELSE IF v # "sqlite" /\ bt.value[1] \notin cat.schemas
        THEN [raised |-> "ProgrammingError", cat |-> cat]
        ELSE [raised |-> "none",
              cat |-> [cat EXCEPT
                  !.tables = @ \cup {bt.value},
                  !.columns = @ \cup
                      { <<bt.value[1], bt.value[2], OrmColumn(m, i)>> :
                            i \in 1..NumFields(m) }]]

\* add_field rebuilding the table from the model's fields: columns the
\* model does not declare are lost.
AddFieldRebuildingTable(v, cat, m, i, name) ==
    LET bt == BackendTable(v, name)
    IN  IF bt.raised # "none" THEN [raised |-> bt.raised, cat |-> cat]
        ELSE IF bt.value \notin cat.tables
        THEN [raised |-> "OperationalError", cat |-> cat]
        ELSE IF <<bt.value[1], bt.value[2], OrmColumn(m, i)>> \in cat.columns
        THEN [raised |-> "OperationalError", cat |-> cat]
        ELSE [raised |-> "none",
              cat |-> [cat EXCEPT !.columns =
                  {c \in @ : <<c[1], c[2]>> # bt.value} \cup
                  { <<bt.value[1], bt.value[2], OrmColumn(m, k)>> :
                        k \in 1..NumFields(m) }]]

\* schema_editor.add_field(model, field) on a database that accepts the
\* statement.
add_field(v, cat, m, i, name) ==
    LET bt == BackendTable(v, name)
    IN  IF bt.raised # "none" THEN [raised |-> bt.raised, cat |-> cat]
        ELSE IF bt.value \notin cat.tables
        THEN [raised |-> "OperationalError", cat |-> cat]
        ELSE IF <<bt.value[1], bt.value[2], OrmColumn(m, i)>> \in cat.columns
        THEN [raised |-> "OperationalError", cat |-> cat]
        ELSE [raised |-> "none",
              cat |-> [cat EXCEPT !.columns = @ \cup
                  { <<bt.value[1], bt.value[2], OrmColumn(m, i)>> }]]

\* ------------------------------------------------------------------------
\* Foreign-key suppression and column-name resolution
\* ------------------------------------------------------------------------

\* handle_foreign_keys(model): (the saved settings, the fields afterwards)
RECURSIVE SuppressFrom(_, _, _, _)
SuppressFrom(m, i, saved, flds) ==
    IF i > NumFields(m) THEN <<saved, flds>>
    ELSE IF ModelDecl(m).fields[i].is_fk
    THEN SuppressFrom(m, i + 1,
            Append(saved, [field |-> <<m, i>>,
                           db_constraint |-> flds[<<m, i>>].db_constraint,
                           on_delete |-> flds[<<m, i>>].on_delete]),
            [flds EXCEPT ![<<m, i>>].db_constraint = FALSE,
                         ![<<m, i>>].on_delete = "DO_NOTHING"])
    ELSE SuppressFrom(m, i + 1, saved, flds)

\* A suppression that switches db_constraint off and leaves on_delete.
HandleForeignKeysConstraintOnly(m, flds) ==
    IF ModelDecl(m).managed THEN <<(<<>>), flds>>
    ELSE <<SuppressFrom(m, 1, <<>>, flds)[1],
           [x \in DOMAIN flds |->
               IF x[1] = m /\ ModelDecl(m).fields[x[2]].is_fk
               THEN [flds[x] EXCEPT !.db_constraint = FALSE]
               ELSE flds[x]]>>

handle_foreign_keys(m, flds) ==
    IF ModelDecl(m).managed THEN <<(<<>>), flds>>
    ELSE SuppressFrom(m, 1, <<>>, flds)

\* restore_foreign_keys that puts back db_constraint and forgets on_delete.
RECURSIVE RestoreConstraintOnly(_, _)
RestoreConstraintOnly(original_settings, flds) ==
    IF original_settings = <<>> THEN flds
    ELSE LET s == Head(original_settings)
         IN  RestoreConstraintOnly(Tail(original_settings),
                [flds EXCEPT ![s.field].db_constraint = s.db_constraint])

\* restore_foreign_keys(original_settings): the fields afterwards
RECURSIVE restore_foreign_keys(_, _)
restore_foreign_keys(original_settings, flds) ==
    IF original_settings = <<>> THEN flds
    ELSE LET s == Head(original_settings)
         IN  restore_foreign_keys(Tail(original_settings),
                [flds EXCEPT ![s.field].db_constraint = s.db_constraint,
                             ![s.field].on_delete = s.on_delete])

\* Column-name resolution that overlooks the db_column override of a field
\* that is no foreign key.
ResolveIgnoringOverride(name, db_column, is_fk) ==
    IF is_fk
    THEN IF Truthy(db_column) THEN db_column
         ELSE IF ~EndsWith(name, ID_SUFFIX) THEN name \o ID_SUFFIX
         ELSE name
    ELSE name

\* Column-name resolution that appends "_id" to every foreign key's column,
\* an explicit db_column included.
ResolveAlwaysAppending(name, db_column, is_fk) ==
    LET column_name == IF Truthy(db_column) THEN db_column ELSE name
    IN  IF is_fk /\ ~EndsWith(column_name, ID_SUFFIX)
        THEN column_name \o ID_SUFFIX
        ELSE column_name

\* The column name process_field checks (lines 659-668).
ResolveColumnName(name, db_column, is_fk) ==
    LET column_name == IF Truthy(db_column) THEN db_column ELSE name
    IN  IF is_fk
        THEN IF Truthy(db_column) THEN db_column
             ELSE IF ~EndsWith(column_name, ID_SUFFIX)
             THEN column_name \o ID_SUFFIX
             ELSE column_name
        ELSE column_name

\* ------------------------------------------------------------------------
\* Column types
\* ------------------------------------------------------------------------

UpperCase ==
    <<"A", "B", "C", "D", "E", "F", "G", "H", "I", "J", "K", "L", "M",
      "N", "O", "P", "Q", "R", "S", "T", "U", "V", "W", "X", "Y", "Z">>

LowerCase ==
    <<"a", "b", "c", "d", "e", "f", "g", "h", "i", "j", "k", "l", "m",
      "n", "o", "p", "q", "r", "s", "t", "u", "v", "w", "x", "y", "z">>

\* str.lower()
LowerChar(c) ==
    IF \E i \in DOMAIN UpperCase : UpperCase[i] = c
    THEN LowerCase[CHOOSE i \in DOMAIN UpperCase : UpperCase[i] = c]
    ELSE c

Lower(s) == [i \in 1..Len(s) |-> LowerChar(s[i])]

\* The lists of the compatible_types dictionary (lines 244-251), in order.
compatible_types ==
    <<
      { <<"i", "n", "t">>,
        <<"i", "n", "t", "e", "g", "e", "r">>,
        <<"s", "m", "a", "l", "l", "i", "n", "t">>,
        <<"b", "i", "g", "i", "n", "t">> },
      { <<"v", "a", "r", "c", "h", "a", "r">>,
        <<"c", "h", "a", "r">>,
        <<"t", "e", "x", "t">>,
        <<"n", "v", "a", "r", "c", "h", "a", "r">>,
        <<"n", "c", "h", "a", "r">> },
      { <<"f", "l", "o", "a", "t">>,
        <<"r", "e", "a", "l">>,
        <<"d", "o", "u", "b", "l", "e", " ", "p", "r", "e", "c", "i", "s", "i", "o", "n">> },
      { <<"d", "e", "c", "i", "m", "a", "l">>,
        <<"n", "u", "m", "e", "r", "i", "c">> },
      { <<"d", "a", "t", "e", "t", "i", "m", "e">>,
        <<"t", "i", "m", "e", "s", "t", "a", "m", "p">>,
        <<"d", "a", "t", "e">>,
        <<"t", "i", "m", "e">> },
      { <<"b", "o", "o", "l">>,
        <<"b", "o", "o", "l", "e", "a", "n">>,
        <<"b", "i", "t">> } >>

\* types_are_compatible without the lowercasing of lines 241-242.
TypesCompatibleCaseSensitive(existing_type, expected_type) ==
    LET existing == IF Truthy(existing_type) THEN existing_type ELSE <<>>
        expected == IF Truthy(expected_type) THEN expected_type ELSE <<>>
    IN  \E k \in DOMAIN compatible_types :
            /\ existing \in compatible_types[k]
            /\ expected \in compatible_types[k]

types_are_compatible(existing_type, expected_type) ==
    LET existing == IF Truthy(existing_type) THEN Lower(existing_type)
                    ELSE <<>>
        expected == IF Truthy(expected_type) THEN Lower(expected_type)
                    ELSE <<>>
    IN  \E k \in DOMAIN compatible_types :
            /\ existing \in compatible_types[k]
            /\ expected \in compatible_types[k]

\* ------------------------------------------------------------------------
\* Collection and grouping
\* ------------------------------------------------------------------------

\* collect_unmanaged_models without the test of the managed flag (line 514).
CollectAllModels(app) == AppModels(app)

\* collect_unmanaged_models(app_config): the models it appends
collect_unmanaged_models(app) ==
    SelectSeq(AppModels(app), LAMBDA m : ~ModelDecl(m).managed)

\* handle's loop over the app configs (every fixture app is local, so
\* is_app_eligible holds for each)
RECURSIVE CollectFrom(_)
CollectFrom(apps) ==
    IF apps = <<>> THEN <<>>
    ELSE collect_unmanaged_models(Head(apps)) \o CollectFrom(Tail(apps))

\* An alias resolution that overlooks APP_TO_DATABASE_MAPPING.
DbAliasAlwaysDefault(map, m) == "default"

\* The alias process_models resolves for a model (lines 531-538).
DbAlias(map, m) ==
    IF map # {} /\ \E p \in map : p[1] = ModelDecl(m).app_label
    THEN (CHOOSE p \in map : p[1] = ModelDecl(m).app_label)[2]
    ELSE "default"

\* models_by_connection, a dict in insertion order (lines 528-542).
RECURSIVE GroupModels(_, _, _)
GroupModels(map, ms, acc) ==
    IF ms = <<>> THEN acc
    ELSE LET m == Head(ms)
             a == DbAlias(map, m)
             at == {i \in 1..Len(acc) : acc[i].alias = a}
         IN  IF at = {}
             THEN GroupModels(map, Tail(ms),
                              Append(acc, [alias |-> a, models |-> <<m>>]))
             ELSE GroupModels(map, Tail(ms),
                              [acc EXCEPT ![CHOOSE i \in at : TRUE].models =
                                              Append(@, m)])

\* ------------------------------------------------------------------------
\* Initial states
\* ------------------------------------------------------------------------

Unmanaged == {m \in Models : ~ModelDecl(m).managed}

\* Where a table that was made for the model by hand lives: the parsed
\* (schema, table) of its identifier (sqlite has the one schema).
LegacyTable(v, name) ==
    LET p == parse_table_name(v, name)
    IN  IF v = "sqlite" THEN <<MAIN, p.value[2]>> ELSE p.value

\* The database behind alias a before the first run: empty, or holding for
\* each unmanaged model routed to it a table with the id column only.
InitCatalog(v, map, tabs, had, a) ==
    LET dflt == IF get_default_schema(v[a]) = NoneVal THEN {}
                ELSE {get_default_schema(v[a])}
        mine == {m \in Unmanaged :
                    /\ had
                    /\ DbAlias(map, m) = a
                    /\ parse_table_name(v[a], tabs[m]).raised = "none"}
        locs == {LegacyTable(v[a], tabs[m]) : m \in mine}
    IN  [schemas |-> dflt \cup {l[1] : l \in locs},
         tables |-> locs,
         columns |-> {<<l[1], l[2], ID>> : l \in locs}]

InitFields ==
    [x \in FieldIds |->
        LET f == ModelDecl(x[1]).fields[x[2]]
        IN  [db_column |-> f.db_column,
             db_constraint |-> f.db_constraint,
             on_delete |-> f.on_delete]]

Init ==
    /\ vendor \in [Aliases -> Vendors]
    /\ mapping \in AppMappings
    \* a database no model is routed to plays no part: fix its vendor
    /\ mapping = {} => vendor["alternate"] = "sqlite"
    /\ vendor["alternate"] \in {"sqlite", "postgresql"}
    /\ \E t1 \in DbTables1, t2 \in DbTables2 :
          db_table = [m \in Models |->
                        IF m = 1 THEN t1 ELSE IF m = 2 THEN t2 ELSE DbTable3]
    /\ fields = InitFields
    /\ legacy \in BOOLEAN
    /\ catalog = [a \in Aliases |->
                    InitCatalog(vendor, mapping, db_table, legacy, a)]
    /\ pc = "idle"
    /\ verbose = FALSE
    /\ models_to_process = <<>>
    /\ groups = <<>>
    /\ gi = 1
    /\ mi = 1
    /\ fi = 1
    /\ stack = <<>>
    /\ original_fk_settings = <<>>
    /\ parsed = <<NoneVal, NoneVal>>
    /\ exc = NoExc
    /\ saved_catalog = EmptyCatalog
    /\ passNo = 0
    /\ faults = 0
    /\ log = <<>>
    /\ stderr = <<>>
    /\ result = "none"
    /\ pre = [db_table |-> db_table, fields |-> fields, catalog |-> catalog]
    /\ fk_before = fields
    /\ pf = [model |-> 0, field |-> 0, before |-> NoneVal,
             column_name |-> NoneVal, missing |-> FALSE, outcome |-> "none"]
    /\ fncall = NoCall
    /\ fnret = NoRet
    /\ passes = NoPasses

\* ------------------------------------------------------------------------
\* The running command
\* ------------------------------------------------------------------------

\* self.connection and the model, field in hand
CurAlias == groups[gi].alias
CurVendor == vendor[CurAlias]
CurModels == groups[gi].models
CurModel == CurModels[mi]

Event(op, m, arg, out) ==
    [pass |-> passNo, alias |-> CurAlias, op |-> op, model |-> m,
     field |-> IF op \in {"column_exists", "add_field",
                           "check_column_compatibility"} THEN fi ELSE 0,
     arg |-> arg, out |-> out]

\* handle: collect the unmanaged models of every app, then process_models'
\* grouping by connection (lines 497-502, 528-542).
Handle ==
    /\ pc = "idle"
    /\ passNo < MaxPasses
    /\ passNo' = passNo + 1
    /\ verbose' \in BOOLEAN
    /\ models_to_process' = CollectFrom(AppConfigs)
    /\ groups' = GroupModels(mapping, models_to_process', <<>>)
    /\ gi' = 1
    /\ mi' = 1
    /\ fi' = 1
    /\ stack' = <<>>
    /\ exc' = NoExc
    /\ stderr' = <<>>
    /\ result' = IF groups' = <<>> THEN "ok" ELSE "running"
    /\ pc' = IF groups' = <<>> THEN "idle" ELSE "schema_editor_enter"
    /\ pre' = [db_table |-> db_table, fields |-> fields, catalog |-> catalog]
    /\ UNCHANGED <<confVars, callVars, raceVars,
                   metaVars, catalog, original_fk_settings, parsed,
                   saved_catalog, faults, log, fk_before, pf>>

\* with connection.schema_editor() as schema_editor, with ExitStack() as
\* stack (lines 545-548).
SchemaEditorEnter ==
    /\ pc = "schema_editor_enter"
    /\ saved_catalog' = catalog[CurAlias]
    /\ stack' = <<>>
    /\ mi' = 1
    /\ pc' = "enter_context"
    /\ UNCHANGED <<confVars, callVars, raceVars,
                   metaVars, catalog, verbose, models_to_process,
                   groups, gi, fi, original_fk_settings, parsed, exc, obsVars>>

\* stack.enter_context(temporary_table_name(model, connection)): the context
\* manager up to its yield (lines 550-553, 388-396).
temporary_table_name ==
    /\ pc = "enter_context"
    /\ LET model == CurModel
           original_db_table == db_table[model]
           p == parse_table_name(CurVendor, original_db_table)
           last == mi = Len(CurModels)
       IN  IF CurVendor # "sqlite" /\ p.raised # "none"
           THEN /\ exc' = Exc(p.raised, "temporary_table_name")
                /\ pc' = "exit_stack"
                /\ UNCHANGED <<db_table, stack, mi>>
           ELSE /\ db_table' =
                      IF CurVendor # "sqlite"
                      THEN [db_table EXCEPT ![model] =
                              get_formatted_table_name(CurVendor,
                                  p.value[1], p.value[2])]
                      ELSE db_table
                /\ stack' = Append(stack,
                      [model |-> model,
                       original_db_table |-> original_db_table])
                /\ mi' = IF last THEN 1 ELSE mi + 1
                /\ pc' = IF last THEN "handle_foreign_keys"
                         ELSE "enter_context"
                /\ UNCHANGED exc
    /\ UNCHANGED <<confVars, callVars, raceVars,
                   fields, catalog, verbose, models_to_process,
                   groups, gi, fi, original_fk_settings, parsed,
                   saved_catalog, obsVars>>

\* create_table_for_model, its first statement (line 616).
HandleForeignKeys ==
    /\ pc = "handle_foreign_keys"
    /\ LET r == handle_foreign_keys(CurModel, fields)
       IN  /\ original_fk_settings' = r[1]
           /\ fields' = r[2]
    /\ fk_before' = fields
    /\ log' = Append(log, Event("create_table_for_model", CurModel,
                                db_table[CurModel], "called"))
    /\ pc' = "parse_table_name"
    /\ UNCHANGED <<confVars, callVars, raceVars,
                   db_table, catalog, verbose, models_to_process,
                   groups, gi, mi, fi, stack, parsed, exc, saved_catalog,
                   passNo, faults, stderr, result, pre, pf>>

\* create_table_for_model, lines 620-621.
ParseTableName ==
    /\ pc = "parse_table_name"
    /\ LET p == parse_table_name(CurVendor, db_table[CurModel])
       IN  IF p.raised # "none"
           THEN /\ exc' = Exc(p.raised, "parse_table_name")
                /\ pc' = "finally"
                /\ UNCHANGED parsed
           ELSE /\ parsed' = p.value
                /\ pc' = "ensure_schema"
                /\ UNCHANGED exc
    /\ UNCHANGED <<confVars, callVars, raceVars,
                   metaVars, catalog, verbose, models_to_process,
                   groups, gi, mi, fi, stack, original_fk_settings,
                   saved_catalog, obsVars>>

\* A create_table_for_model that never calls create_schema_if_not_exists.
SchemaNeverEnsured(schema) == FALSE

\* create_table_for_model, line 629: if schema.
SchemaIsEnsured(schema) == Truthy(schema)

\* create_table_for_model, lines 629-630: create_schema_if_not_exists when
\* the schema is truthy.  The database may refuse a statement it is sent.
EnsureSchema ==
    /\ pc = "ensure_schema"
    /\ LET schema == parsed[1]
           r == create_schema_if_not_exists(CurVendor, catalog[CurAlias],
                                            schema)
           events == [k \in 1..Len(r.executed) |->
                        Event("execute", CurModel, r.executed[k], "ok")]
       IN  IF ~SchemaIsEnsured(schema)
           THEN /\ pc' = "create_model_table"
                /\ UNCHANGED <<catalog, exc, log, faults>>
           ELSE IF r.raised # "none"
           THEN /\ exc' = Exc(r.raised, "create_schema_if_not_exists")
                /\ pc' = "finally"
                /\ UNCHANGED <<catalog, log, faults>>
           ELSE \E refused \in BOOLEAN :
                /\ refused => faults < MaxFaults /\ r.executed # <<>>
                /\ IF refused
                   THEN /\ faults' = faults + 1
                        /\ exc' = Exc("ProgrammingError",
                                      "create_schema_if_not_exists")
                        /\ pc' = "finally"
                        /\ log' = Append(log, Event("execute", CurModel,
                                            r.executed[1], "ProgrammingError"))
                        /\ UNCHANGED catalog
                   ELSE /\ catalog' = [catalog EXCEPT ![CurAlias] = r.cat]
                        /\ log' = log \o events
                        /\ pc' = "create_model_table"
                        /\ UNCHANGED <<exc, faults>>
    /\ UNCHANGED <<confVars, callVars, raceVars,
                   metaVars, verbose, models_to_process, groups,
                   gi, mi, fi, stack, original_fk_settings, parsed,
                   saved_catalog, passNo, stderr, result, pre, fk_before, pf>>

\* The exceptions create_model_table's except clause catches (line 588).
CreateModelTableCatches(e) == e = "ProgrammingError"

\* create_table_for_model without the early return of line 636.
AfterCreateModelTableNoReturn(created) == "process_field"

\* create_table_for_model, lines 633-636: the field loop follows only when
\* create_model_table answered True; on False it returns (through finally).
AfterCreateModelTable(created) ==
    IF created THEN "process_field" ELSE "finally"

\* create_model_table as create_table_for_model calls it (lines 633-636,
\* 580-602): table_exists, then schema_editor.create_model when the table is
\* missing.  True moves on to the field loop, False returns through the
\* finally clause, an exception it does not catch propagates.
CreateModelTable ==
    /\ pc = "create_model_table"
    /\ LET model == CurModel
           cat == catalog[CurAlias]
           r == create_model(CurVendor, cat, model, db_table[model])
       IN  \E te \in table_exists(CurVendor, cat, parsed[1], parsed[2]) :
           \E refusal \in {"none", "ProgrammingError", "OperationalError"} :
           LET raised == IF refusal # "none" THEN refusal ELSE r.raised
               asked == Event("table_exists", model, parsed,
                              IF te.raised # "none" THEN te.raised
                              ELSE IF te.value THEN "True" ELSE "False")
               made == Event("create_model", model, db_table[model],
                             IF raised = "none" THEN "ok" ELSE raised)
               answer(b) == Event("create_model_table", model, parsed, b)
           IN  \* the database refuses only a statement it would have run
               /\ refusal # "none" =>
                     /\ faults < MaxFaults
                     /\ te.raised = "none" /\ ~te.value
                     /\ r.raised = "none"
               /\ faults' = IF refusal # "none" THEN faults + 1 ELSE faults
               /\ IF te.raised # "none"
                  THEN /\ exc' = Exc(te.raised, "table_exists")
                       /\ pc' = "finally"
                       /\ log' = Append(log, asked)
                       /\ UNCHANGED <<catalog, stderr, fi>>
                  ELSE IF te.value
                  THEN /\ pc' = AfterCreateModelTable(TRUE)
                       /\ fi' = 1
                       /\ log' = log \o <<asked, answer("True")>>
                       /\ UNCHANGED <<catalog, stderr, exc>>
                  ELSE IF raised = "none"
                  THEN /\ catalog' = [catalog EXCEPT ![CurAlias] = r.cat]
                       /\ pc' = AfterCreateModelTable(TRUE)
                       /\ fi' = 1
                       /\ log' = log \o <<asked, made, answer("True")>>
                       /\ UNCHANGED <<stderr, exc>>
                  ELSE IF CreateModelTableCatches(raised)
                  THEN /\ stderr' = Append(stderr,
                              <<"Error creating table", model, raised>>)
                       /\ pc' = AfterCreateModelTable(FALSE)
                       /\ fi' = 1
                       /\ log' = log \o <<asked, made, answer("False")>>
                       /\ UNCHANGED <<catalog, exc>>
                  ELSE /\ exc' = Exc(raised, "create_model")
                       /\ pc' = "finally"
                       /\ log' = log \o <<asked, made>>
                       /\ UNCHANGED <<catalog, stderr, fi>>
    /\ UNCHANGED <<confVars, callVars, raceVars,
                   metaVars, verbose, models_to_process, groups,
                   gi, mi, stack, original_fk_settings, parsed,
                   saved_catalog, passNo, result, pre, fk_before, pf>>

\* An except clause as narrow as create_model_table's.
ProcessFieldCatchesProgrammingError(e) == e = "ProgrammingError"

\* The exceptions process_field's except clause catches (line 693).
ProcessFieldCatches(e) == TRUE

\* field.db_column when process_field's try statement is left (lines
\* 684-698): the restore of line 691 is skipped when add_field raises.
DbColumnAfterAddField(original_db_column, column_name, raised) ==
    IF raised THEN column_name ELSE original_db_column

\* process_field for one field of the loop of lines 639-642 (lines 648-703).
ProcessField ==
    /\ pc = "process_field"
    /\ LET model == CurModel
           decl == ModelDecl(model).fields[fi]
           original_db_column == fields[<<model, fi>>].db_column
           column_name == ResolveColumnName(decl.name, original_db_column,
                                            decl.is_fk)
           cat == catalog[CurAlias]
           key == <<parsed[1], parsed[2], column_name>>
           r == add_field(CurVendor, cat, model, fi, db_table[model])
           last == fi = NumFields(model)
       IN  \E ce \in column_exists(CurVendor, cat, parsed[1], parsed[2],
                                   column_name) :
           \E refused \in BOOLEAN :
           LET raised == IF refused THEN "OperationalError" ELSE r.raised
               asked == Event("column_exists", model, key,
                              IF ce.raised # "none" THEN ce.raised
                              ELSE IF ce.value THEN "True" ELSE "False")
               added == Event("add_field", model, key,
                              IF raised = "none" THEN "ok" ELSE raised)
               checked == Event("check_column_compatibility", model, key,
                                "reported")
               call(missing, outcome) ==
                   [model |-> model, field |-> fi,
                    before |-> original_db_column,
                    column_name |-> column_name,
                    missing |-> missing, outcome |-> outcome]
           IN  /\ refused =>
                     /\ faults < MaxFaults
                     /\ ce.raised = "none" /\ ~ce.value
                     /\ r.raised = "none"
               /\ faults' = IF refused THEN faults + 1 ELSE faults
               /\ IF ce.raised # "none"
                  THEN /\ exc' = Exc(ce.raised, "column_exists")
                       /\ pc' = "finally"
                       /\ log' = Append(log, asked)
                       /\ pf' = call(FALSE, "raised")
                       /\ UNCHANGED <<catalog, fields, stderr, fi>>
                  ELSE IF ce.value
                  THEN /\ log' = IF verbose THEN log \o <<asked, checked>>
                                 ELSE Append(log, asked)
                       /\ pf' = call(FALSE, "present")
                       /\ pc' = IF last THEN "finally" ELSE "process_field"
                       /\ fi' = IF last THEN fi ELSE fi + 1
                       /\ UNCHANGED <<catalog, fields, stderr, exc>>
                  ELSE IF raised = "none" \/ ProcessFieldCatches(raised)
                  THEN /\ catalog' = IF raised = "none"
                                     THEN [catalog EXCEPT ![CurAlias] = r.cat]
                                     ELSE catalog
                       /\ fields' = [fields EXCEPT ![<<model, fi>>].db_column =
                              DbColumnAfterAddField(original_db_column,
                                  column_name, raised # "none")]
                       /\ stderr' = IF raised = "none" THEN stderr
                                    ELSE Append(stderr,
                                        <<"Error adding column", model, raised>>)
                       /\ log' = log \o <<asked, added>>
                       /\ pf' = call(TRUE, IF raised = "none" THEN "added"
                                           ELSE "failed")
                       /\ pc' = IF last THEN "finally" ELSE "process_field"
                       /\ fi' = IF last THEN fi ELSE fi + 1
                       /\ UNCHANGED exc
                  ELSE /\ exc' = Exc(raised, "add_field")
                       /\ fields' = [fields EXCEPT ![<<model, fi>>].db_column =
                              DbColumnAfterAddField(original_db_column,
                                  column_name, TRUE)]
                       /\ pc' = "finally"
                       /\ log' = log \o <<asked, added>>
                       /\ pf' = call(TRUE, "raised")
                       /\ UNCHANGED <<catalog, stderr, fi>>
    /\ UNCHANGED <<confVars, callVars, raceVars,
                   db_table, verbose, models_to_process, groups,
                   gi, mi, stack, original_fk_settings, parsed,
                   saved_catalog, passNo, result, pre, fk_before>>

\* create_table_for_model's finally clause (lines 644-646), then the loop of
\* lines 556-559 moves to the next model unless an exception is in flight.
Finally ==
    /\ pc = "finally"
    /\ fields' = restore_foreign_keys(original_fk_settings, fields)
    /\ log' = Append(log, Event("restore_foreign_keys", CurModel,
                                db_table[CurModel], "done"))
    /\ IF exc = NoExc /\ mi < Len(CurModels)
       THEN /\ mi' = mi + 1
            /\ pc' = "handle_foreign_keys"
       ELSE /\ pc' = "exit_stack"
            /\ UNCHANGED mi
    /\ UNCHANGED <<confVars, callVars, raceVars,
                   db_table, catalog, verbose, models_to_process,
                   groups, gi, fi, stack, original_fk_settings, parsed, exc,
                   saved_catalog, passNo, faults, stderr, result, pre,
                   fk_before, pf>>

\* ExitContexts without the finally clause of temporary_table_name: the
\* table names are put back only when no exception is in flight.
ExitContextsNoFinally(stk, tabs) ==
    IF exc # NoExc \/ stk = <<>> THEN tabs
    ELSE [m \in DOMAIN tabs |->
            IF \E k \in 1..Len(stk) : stk[k].model = m
            THEN stk[CHOOSE k \in 1..Len(stk) : stk[k].model = m]
                     .original_db_table
            ELSE tabs[m]]

\* ExitStack.__exit__: each entered temporary_table_name context runs its
\* finally clause (line 398), the last entered first.
RECURSIVE ExitContexts(_, _)
ExitContexts(stk, tabs) ==
    IF stk = <<>> THEN tabs
    ELSE LET top == stk[Len(stk)]
         IN  ExitContexts(SubSeq(stk, 1, Len(stk) - 1),
                          [tabs EXCEPT ![top.model] = top.original_db_table])

ExitStack ==
    /\ pc = "exit_stack"
    /\ db_table' = ExitContexts(stack, db_table)
    /\ stack' = <<>>
    /\ pc' = "schema_editor_exit"
    /\ UNCHANGED <<confVars, callVars, raceVars,
                   fields, catalog, verbose, models_to_process,
                   groups, gi, mi, fi, original_fk_settings, parsed, exc,
                   saved_catalog, obsVars>>

\* The schema-editing scope ends (line 547): with an exception in flight a
\* transactional backend rolls the scope's DDL back and the exception leaves
\* process_models and handle; else the next connection group follows.
SchemaEditorExit ==
    /\ pc = "schema_editor_exit"
    /\ IF exc # NoExc
       THEN /\ catalog' = IF TransactionalDDL(CurVendor)
                          THEN [catalog EXCEPT ![CurAlias] = saved_catalog]
                          ELSE catalog
            /\ result' = exc.type
            /\ pc' = "idle"
            /\ UNCHANGED gi
       ELSE IF gi < Len(groups)
       THEN /\ gi' = gi + 1
            /\ pc' = "schema_editor_enter"
            /\ UNCHANGED <<catalog, result>>
       ELSE /\ result' = "ok"
            /\ pc' = "idle"
            /\ UNCHANGED <<catalog, gi>>
    /\ UNCHANGED <<confVars, callVars, raceVars,
                   metaVars, verbose, models_to_process, groups,
                   mi, fi, stack, original_fk_settings, parsed, exc,
                   saved_catalog, passNo, faults, log, stderr, pre,
                   fk_before, pf>>

Next ==
    \/ Handle
    \/ SchemaEditorEnter
    \/ temporary_table_name
    \/ HandleForeignKeys
    \/ ParseTableName
    \/ EnsureSchema
    \/ CreateModelTable
    \/ ProcessField
    \/ Finally
    \/ ExitStack
    \/ SchemaEditorExit

Spec == Init /\ [][Next]_vars

\* ------------------------------------------------------------------------
\* The module's functions called on their own
\* ------------------------------------------------------------------------

\* connection.vendor of the caller: the tags of Vendors and the tag the
\* tests compare with.
CallVendors == Vendors \cup {"sqlite3"}

\* Table identifiers: bare, dotted, bracketed, quoted, with further dots,
\* bracketed without a dot, and with nothing after the dot.
TableNames ==
    {
      <<"t">>,
      <<"s", ".", "t">>,
      <<"[", "s", "]", ".", "[", "t", "]">>,
      <<"[", "A", "_", "S", "]", ".", "[", "t", "]">>,
      <<"\"", "s", "\"", ".", "\"", "t", "\"">>,
      <<"'", "s", "'", ".", "'", "t", "'">>,
      <<"s", ".", "t", ".", "x">>,
      <<"[", "s", "]", ".", "[", "t", ".", "x", "]">>,
      <<"[", "s", "]", ".", "[", "t", "]", ".", "[", "x", "]">>,
      <<"[", "s", ".", "x", "]", ".", "[", "t", "]">>,
      <<"[", "t", "]">>,
      <<"s", ".">> }

\* Schema names: inside the class [A-Za-z0-9_.], empty, and with a character
\* outside the class at the end, in the middle and at the start.
SchemaNames ==
    {
      <<"s">>,
      <<"A", "_", "S">>,
      <<"s", ".", "x">>,
      <<>>,
      <<"s", "-">>,
      <<"s", " ", "t">>,
      <<"s", "\n">>,
      <<"\n", "s">>,
      <<"s", ";", "x">>,
      <<"s", "]">> }

\* Column types as the database and the ORM report them; None for no type.
TypeNames ==
    {
      <<"I", "N", "T", "E", "G", "E", "R">>,
      <<"i", "n", "t">>,
      <<"v", "a", "r", "c", "h", "a", "r">>,
      <<"t", "e", "x", "t">>,
      <<"B", "i", "g", "I", "n", "t">>,
      <<"r", "e", "a", "l">>,
      <<"d", "o", "u", "b", "l", "e", " ", "p", "r", "e", "c", "i", "s", "i", "o", "n">>,
      <<"u", "u", "i", "d">>,
      <<>>,
      NoneVal }

\* Field names and db_column values; None for no db_column.
FieldNames ==
    {
      <<"a", "d", "d", "r", "e", "s", "s">>,
      <<"r", "e", "l", "a", "t", "e", "d", "_", "m", "o", "d", "e", "l">>,
      <<"o", "w", "n", "e", "r", "_", "i", "d">>,
      <<"i", "d">> }

DbColumns ==
    {
      <<"a", "d", "d", "y">>,
      <<"m", "o", "d", "e", "l", "_", "I", "D">>,
      <<>>,
      NoneVal }

\* A database that holds the given schemas and nothing else.
CatalogWith(schemas) == [EmptyCatalog EXCEPT !.schemas = schemas]

\* Identifiers for the driver's rewrite: those of TableNames, and a part
\* that keeps a quote or a bracket once parsed.
RewrittenNames ==
    TableNames \cup
    { <<"'", "\"", "t", "\"", "'">>,
      <<"s", ".", "'", "\"", "t", "\"", "'">>,
      <<"s", ".", "\"", "[", "t", "]", "\"">> }

\* The connections whose db_table the driver rewrites in a quoted form.
QuotingVendors == {"postgresql", "microsoft"}

CallInputs ==
    [fn : {"parse_table_name"}, args : CallVendors \X TableNames]
    \cup
    { [fn |-> "create_schema_if_not_exists",
       args |-> <<v, CatalogWith(IF held THEN {schema} ELSE {}), schema>>,
       prior |-> <<>>] :
          v \in CallVendors, schema \in SchemaNames, held \in BOOLEAN }
    \cup
    [fn : {"types_are_compatible"}, args : TypeNames \X TypeNames]
    \cup
    [fn : {"process_field"}, args : FieldNames \X DbColumns \X BOOLEAN]
    \cup
    [fn : {"create_table_for_model"}, args : QuotingVendors \X RewrittenNames]
    \cup
    [fn : {"connection.vendor"}, args : {<<v>> : v \in CallVendors}]

\* The command is not running while a function is called on its own.
InitCalls ==
    /\ vendor = [a \in Aliases |-> "sqlite"]
    /\ mapping = {}
    /\ db_table = [m \in Models |-> IF m = 3 THEN DbTable3 ELSE <<"t">>]
    /\ fields = InitFields
    /\ legacy = FALSE
    /\ catalog = [a \in Aliases |-> CatalogWith({MAIN})]
    /\ pc = "idle"
    /\ verbose = FALSE
    /\ models_to_process = <<>>
    /\ groups = <<>>
    /\ gi = 1
    /\ mi = 1
    /\ fi = 1
    /\ stack = <<>>
    /\ original_fk_settings = <<>>
    /\ parsed = <<NoneVal, NoneVal>>
    /\ exc = NoExc
    /\ saved_catalog = EmptyCatalog
    /\ passNo = 0
    /\ faults = 0
    /\ log = <<>>
    /\ stderr = <<>>
    /\ result = "none"
    /\ pre = [db_table |-> db_table, fields |-> fields, catalog |-> catalog]
    /\ fk_before = fields
    /\ pf = [model |-> 0, field |-> 0, before |-> NoneVal,
             column_name |-> NoneVal, missing |-> FALSE, outcome |-> "none"]
    /\ fncall \in CallInputs
    /\ fnret = NoRet
    /\ passes = NoPasses

commandVars == <<confVars, metaVars, catalog, pc, runVars, obsVars>>

CallParseTableName ==
    /\ fncall.fn = "parse_table_name"
    /\ fnret = NoRet
    /\ fnret' = parse_table_name(fncall.args[1], fncall.args[2])
    /\ UNCHANGED <<commandVars, raceVars, fncall>>

CallCreateSchemaIfNotExists ==
    /\ fncall.fn = "create_schema_if_not_exists"
    /\ fnret = NoRet
    /\ fnret' = create_schema_if_not_exists(fncall.args[1], fncall.args[2],
                                            fncall.args[3])
    /\ UNCHANGED <<commandVars, raceVars, fncall>>

\* The same call once more, on the database the first call left.
RepeatCreateSchemaIfNotExists ==
    /\ fncall.fn = "create_schema_if_not_exists"
    /\ fnret # NoRet
    /\ fnret.raised = "none"
    /\ fncall.prior = <<>>
    /\ fnret.executed # <<>>
    /\ fncall' = [fncall EXCEPT !.args[2] = fnret.cat,
                                !.prior = fnret.executed]
    /\ fnret' = NoRet
    /\ UNCHANGED <<commandVars, raceVars>>

CallTypesAreCompatible ==
    /\ fncall.fn = "types_are_compatible"
    /\ fnret = NoRet
    /\ fnret' = Ret(types_are_compatible(fncall.args[1], fncall.args[2]))
    /\ UNCHANGED <<commandVars, raceVars, fncall>>

\* process_field up to line 668: the column name it resolves.
CallResolveColumnName ==
    /\ fncall.fn = "process_field"
    /\ fnret = NoRet
    /\ fnret' = Ret(ResolveColumnName(fncall.args[1], fncall.args[2],
                                      fncall.args[3]))
    /\ UNCHANGED <<commandVars, raceVars, fncall>>

\* What create_table_for_model parses (lines 620-621) for a model declared
\* with the given db_table: the name temporary_table_name has written
\* (lines 390-394), parsed again.
CallParseRewritten ==
    /\ fncall.fn = "create_table_for_model"
    /\ fnret = NoRet
    /\ LET v == fncall.args[1]
           p == parse_table_name(v, fncall.args[2])
       IN  fnret' = IF p.raised # "none" THEN p
                    ELSE parse_table_name(v,
                            get_formatted_table_name(v, p.value[1],
                                                     p.value[2]))
    /\ UNCHANGED <<commandVars, raceVars, fncall>>

\* Each function that branches on connection.vendor, called with the same
\* connection: the default schema, and the query each lookup executes.
CallVendorDispatch ==
    /\ fncall.fn = "connection.vendor"
    /\ fnret = NoRet
    /\ LET v == fncall.args[1]
       IN  fnret' = Ret([get_default_schema |-> get_default_schema(v),
                         table_exists |-> TableExistsQuery(v),
                         column_exists |-> ColumnExistsQuery(v),
                         get_column_type |-> GetColumnTypeQuery(v),
                         formatted |-> get_formatted_table_name(v, <<"s">>,
                                                                <<"t">>)])
    /\ UNCHANGED <<commandVars, raceVars, fncall>>

NextCalls ==
    \/ CallParseTableName
    \/ CallCreateSchemaIfNotExists
    \/ RepeatCreateSchemaIfNotExists
    \/ CallTypesAreCompatible
    \/ CallResolveColumnName
    \/ CallParseRewritten
    \/ CallVendorDispatch

SpecCalls == InitCalls /\ [][NextCalls]_vars

\* ------------------------------------------------------------------------
\* Two passes in one process, over the same model classes
\* ------------------------------------------------------------------------

\* The vendors of the connection the passes work on, and the connection
\* group both of them process.
RaceVendors == {"sqlite", "postgresql", "microsoft"}
RaceModels == GroupModels({}, CollectFrom(AppConfigs), <<>>)[1].models
RaceVendor == vendor["default"]

InitRace ==
    /\ vendor \in [Aliases -> RaceVendors]
    /\ vendor["alternate"] = "sqlite"
    /\ mapping = {}
    /\ \E t1 \in DbTables1, t2 \in DbTables2 :
          db_table = [m \in Models |->
                        IF m = 1 THEN t1 ELSE IF m = 2 THEN t2 ELSE DbTable3]
    /\ fields = InitFields
    /\ legacy = FALSE
    /\ catalog = [a \in Aliases |->
                    InitCatalog(vendor, mapping, db_table, legacy, a)]
    /\ pc = "idle"
    /\ verbose = FALSE
    /\ models_to_process = <<>>
    /\ groups = <<>>
    /\ gi = 1
    /\ mi = 1
    /\ fi = 1
    /\ stack = <<>>
    /\ original_fk_settings = <<>>
    /\ parsed = <<NoneVal, NoneVal>>
    /\ exc = NoExc
    /\ saved_catalog = EmptyCatalog
    /\ passNo = 0
    /\ faults = 0
    /\ log = <<>>
    /\ stderr = <<>>
    /\ result = "none"
    /\ pre = [db_table |-> db_table, fields |-> fields, catalog |-> catalog]
    /\ fk_before = fields
    /\ pf = [model |-> 0, field |-> 0, before |-> NoneVal,
             column_name |-> NoneVal, missing |-> FALSE, outcome |-> "none"]
    /\ fncall = NoCall
    /\ fnret = NoRet
    /\ passes = NoPasses

\* What a step of a pass leaves alone besides the model metadata.
raceFrame == <<confVars, catalog, pc, runVars, obsVars, callVars>>

Running(t) == passes[t].at \notin {"off", "done"}

\* The locals of the passes after pass t has taken a step to locals l: each
\* pass notes that the other one was running at the same time.
Step(t, l) ==
    [u \in Passes |->
        LET both == \E o \in Passes \ {t} : Running(o)
        IN  IF u = t THEN [l EXCEPT !.met = @ \/ both]
            ELSE [passes[u] EXCEPT !.met = @ \/ (Running(u) /\ both)]]

\* handle and process_models up to the ExitStack of the group (483-548).
RaceStart(t) ==
    /\ passes[t].at = "off"
    /\ passes' = Step(t, [passes[t] EXCEPT !.at = "enter_context"])
    /\ UNCHANGED <<raceFrame, metaVars>>

\* temporary_table_name, line 388: original_db_table is read.
RaceSave(t) ==
    /\ passes[t].at = "enter_context"
    /\ LET l == passes[t]
           model == RaceModels[l.k]
           last == l.k = Len(RaceModels)
       IN  passes' = Step(t,
              [l EXCEPT
                 !.stack = Append(@, [model |-> model,
                                      original_db_table |-> db_table[model]]),
                 !.at = IF RaceVendor # "sqlite" THEN "override"
                        ELSE IF last THEN "handle_foreign_keys"
                        ELSE "enter_context",
                 !.k = IF RaceVendor # "sqlite" THEN @
                       ELSE IF last THEN 1 ELSE @ + 1])
    /\ UNCHANGED <<raceFrame, metaVars>>

\* temporary_table_name, lines 389-394: db_table is overwritten.
RaceOverride(t) ==
    /\ passes[t].at = "override"
    /\ LET l == passes[t]
           model == RaceModels[l.k]
           last == l.k = Len(RaceModels)
           p == parse_table_name(RaceVendor,
                                 l.stack[Len(l.stack)].original_db_table)
       IN  /\ p.raised = "none"
           /\ db_table' = [db_table EXCEPT ![model] =
                 get_formatted_table_name(RaceVendor, p.value[1], p.value[2])]
           /\ passes' = Step(t,
                 [l EXCEPT !.at = IF last THEN "handle_foreign_keys"
                                  ELSE "enter_context",
                           !.k = IF last THEN 1 ELSE @ + 1])
    /\ UNCHANGED <<raceFrame, fields>>

\* create_table_for_model, line 616.
RaceHandleForeignKeys(t) ==
    /\ passes[t].at = "handle_foreign_keys"
    /\ LET l == passes[t]
           r == handle_foreign_keys(RaceModels[l.k], fields)
       IN  /\ fields' = r[2]
           /\ passes' = Step(t, [l EXCEPT !.original_fk_settings = r[1],
                                          !.at = "finally"])
    /\ UNCHANGED <<raceFrame, db_table>>

\* create_table_for_model, lines 644-646, and on to the next model.
RaceRestoreForeignKeys(t) ==
    /\ passes[t].at = "finally"
    /\ LET l == passes[t]
           last == l.k = Len(RaceModels)
       IN  /\ fields' = restore_foreign_keys(l.original_fk_settings, fields)
           /\ passes' = Step(t,
                 [l EXCEPT !.original_fk_settings = <<>>,
                           !.at = IF last THEN "exit_stack"
                                  ELSE "handle_foreign_keys",
                           !.k = IF last THEN @ ELSE @ + 1])
    /\ UNCHANGED <<raceFrame, db_table>>

\* An unwinding that closes the contexts and writes no db_table back.
RaceExitForgetting(t) ==
    /\ passes[t].at = "exit_stack"
    /\ passes' = Step(t, [passes[t] EXCEPT !.at = "done", !.stack = <<>>])
    /\ UNCHANGED <<raceFrame, metaVars>>

\* The ExitStack unwinds: the finally clause of the context entered last
\* (line 398).
RaceExit(t) ==
    /\ passes[t].at = "exit_stack"
    /\ LET l == passes[t]
       IN  IF l.stack = <<>>
           THEN /\ passes' = Step(t, [l EXCEPT !.at = "done"])
                /\ UNCHANGED db_table
           ELSE LET c == l.stack[Len(l.stack)]
                IN  /\ db_table' = [db_table EXCEPT
                                      ![c.model] = c.original_db_table]
                    /\ passes' = Step(t,
                          [l EXCEPT !.stack = SubSeq(@, 1, Len(@) - 1)])
    /\ UNCHANGED <<raceFrame, fields>>

NextRace ==
    \E t \in Passes :
        \/ RaceStart(t)
        \/ RaceSave(t)
        \/ RaceOverride(t)
        \/ RaceHandleForeignKeys(t)
        \/ RaceRestoreForeignKeys(t)
        \/ RaceExit(t)

SpecRace == InitRace /\ [][NextRace]_vars

\* ------------------------------------------------------------------------
\* Properties
\* ------------------------------------------------------------------------

\* Positions inside create_table_for_model, between handle_foreign_keys and
\* the end of the finally clause.
InsideModel == {"parse_table_name", "ensure_schema", "create_model_table",
                "process_field", "finally"}

\* Positions at which no connection group is being processed: before the
\* scope of a group is entered, after its ExitStack has unwound, between runs.
OutsideGroup == {"idle", "schema_editor_enter", "schema_editor_exit"}

Events(op) == {i \in DOMAIN log : log[i].op = op}

\* C1: once process_models has left a connection group, by a normal return or
\* with an exception in flight (raised while a model was processed or while a
\* later model's rewrite was entered), every model's _meta.db_table is the
\* value it had when the run started.
C1_TableNamesRestored ==
    pc \in OutsideGroup => \A m \in Models : db_table[m] = pre.db_table[m]

\* C1 witness: a group is left with an exception in flight after a model was
\* processed under a rewritten table name.
C1_Witness ==
    /\ pc = "schema_editor_exit"
    /\ exc # NoExc
    /\ \E i \in Events("create_table_for_model") :
          /\ log[i].pass = passNo
          /\ log[i].arg # pre.db_table[log[i].model]

\* C2: after create_table_for_model has ended (normal return, return because
\* the table could not be created, or an exception), every foreign key's
\* db_constraint and on_delete are what they were just before
\* handle_foreign_keys.
C2_ForeignKeysRestored ==
    pc \notin InsideModel =>
        \A x \in FieldIds :
            /\ fields[x].db_constraint = fk_before[x].db_constraint
            /\ fields[x].on_delete = fk_before[x].on_delete

\* C2 witness: create_table_for_model was left by an exception after it had
\* suppressed an enforced foreign key.
C2_Witness ==
    /\ pc = "exit_stack"
    /\ exc # NoExc
    /\ exc.origin \notin {"temporary_table_name"}
    /\ log # <<>>
    /\ log[Len(log)].op = "restore_foreign_keys"
    /\ \E x \in FieldIds :
          /\ x[1] = log[Len(log)].model
          /\ ModelDecl(x[1]).fields[x[2]].is_fk
          /\ fk_before[x].db_constraint
          /\ fk_before[x].on_delete # "DO_NOTHING"

\* C3: after process_field has returned for a field whose column was missing,
\* field.db_column is what it was before the call, whether add_field
\* succeeded or raised.
C3_DbColumnRestored ==
    pf.missing => fields[<<pf.model, pf.field>>].db_column = pf.before

\* C4: on sqlite, postgresql and microsoft, for every form of identifier,
\* once create_model_table has answered True, table_exists on the same parsed
\* (schema, table) answers True.
C4_TableExistsAfterEnsure ==
    (pc = "process_field" /\ CurVendor \in {"sqlite", "postgresql", "microsoft"})
        => table_exists(CurVendor, catalog[CurAlias], parsed[1], parsed[2])
               = {Ret(TRUE)}

\* C5: over the passes, add_field is invoked at most once for a given
\* connection and (schema, table, resolved column name), even when the
\* database refuses no statement.
C5_AddFieldAtMostOnce ==
    faults = 0 =>
        \A i, j \in Events("add_field") :
            (log[i].alias = log[j].alias /\ log[i].arg = log[j].arg) => i = j

\* An identifier with neither a schema separator nor brackets.
Bare(name) == ~Contains(name, ".") /\ ~Contains(name, "[")

\* create_table_for_model(m) ran to its end in pass p.
Processed(p, m) ==
    \E i \in Events("restore_foreign_keys") :
        log[i].pass = p /\ log[i].model = m

\* The end-to-end scenario for model m: a sqlite connection whose catalog was
\* empty before the first run, a bare table identifier, and a database that
\* refuses no statement.
EndToEnd(m) ==
    /\ vendor[DbAlias(mapping, m)] = "sqlite"
    /\ ~legacy
    /\ Bare(pre.db_table[m])
    /\ faults = 0

\* C6: in the end-to-end scenario, the first pass invokes create_model exactly
\* once for the table and leaves it present with every field's resolved
\* column; a later pass finds the table and every column present and invokes
\* neither create_model nor add_field for the model.
C6_EndToEndSqlite ==
    \A m \in Unmanaged :
        (EndToEnd(m) /\ Processed(1, m)) =>
            LET a == DbAlias(mapping, m)
                t == pre.db_table[m]
                d == ModelDecl(m).fields
            IN  /\ Cardinality({i \in Events("create_model") :
                        /\ log[i].pass = 1
                        /\ log[i].alias = a
                        /\ log[i].arg = t}) = 1
                /\ <<MAIN, t>> \in catalog[a].tables
                /\ \A k \in 1..NumFields(m) :
                      <<MAIN, t, ResolveColumnName(d[k].name, d[k].db_column,
                                                   d[k].is_fk)>>
                          \in catalog[a].columns
                /\ \A i \in DOMAIN log :
                      (log[i].pass > 1 /\ log[i].model = m) =>
                          /\ log[i].op \notin {"create_model", "add_field"}
                          /\ log[i].op \in {"table_exists", "column_exists"}
                                => log[i].out = "True"

\* C6 witness: the second pass has ended after processing model 1 in the
\* end-to-end scenario.
C6_Witness ==
    /\ pc = "idle"
    /\ passNo = 2
    /\ result = "ok"
    /\ EndToEnd(1)
    /\ Processed(1, 1)
    /\ Processed(2, 1)

\* C7: when the table is missing and create_model fails with any
\* database-level error, create_model_table reports it and answers False
\* without raising; when the table exists it answers True without invoking
\* create_model.
C7_CreateFailureAnswersFalse ==
    /\ exc.origin # "create_model"
    /\ \A i \in Events("create_model") :
          log[i].out # "ok" =>
              /\ i < Len(log)
              /\ log[i + 1].op = "create_model_table"
              /\ log[i + 1].out = "False"
    /\ \A i \in Events("table_exists") :
          log[i].out = "True" =>
              /\ i < Len(log)
              /\ log[i + 1].op = "create_model_table"
              /\ log[i + 1].out = "True"

\* The models of the connection group an event belongs to, and the place of
\* the event's model among them.
ModelsOf(alias) ==
    groups[CHOOSE g \in 1..Len(groups) : groups[g].alias = alias].models

PlaceOf(alias, m) ==
    CHOOSE k \in 1..Len(ModelsOf(alias)) : ModelsOf(alias)[k] = m

GroupIndex(alias) == CHOOSE g \in 1..Len(groups) : groups[g].alias = alias

\* After create_table_for_model(m) has run its finally clause as log entry r:
\* the loop goes on with the next model of the group, and every later model
\* of the group is reached unless a model in between raised.
GoesOnAfter(r) ==
    LET e == log[r]
        ms == ModelsOf(e.alias)
        k == PlaceOf(e.alias, e.model)
    IN  /\ k < Len(ms) =>
              IF r = Len(log)
              THEN /\ pc = "handle_foreign_keys"
                   /\ CurModel = ms[k + 1]
                   /\ exc = NoExc
              ELSE /\ log[r + 1].op = "create_table_for_model"
                   /\ log[r + 1].model = ms[k + 1]
                   /\ log[r + 1].pass = e.pass
        /\ e.pass = passNo =>
              \A k2 \in (k + 1)..Len(ms) :
                  \/ \E j \in Events("create_table_for_model") :
                        j > r /\ log[j].pass = e.pass /\ log[j].model = ms[k2]
                  \/ /\ CurAlias = e.alias
                     /\ mi = k2
                     /\ pc = "handle_foreign_keys"
                  \/ /\ CurAlias = e.alias
                     /\ mi < k2
                     /\ pc # "idle" \/ exc # NoExc

\* C8: when create_model_table answers False for a model, no column is
\* checked and no add_field is invoked for a field of that model in this
\* pass, and the later models of the connection group are still processed.
C8_TableFailureSkipsFields ==
    \A i \in Events("create_model_table") :
        log[i].out = "False" =>
            /\ \A j \in DOMAIN log :
                  (log[j].pass = log[i].pass /\ log[j].model = log[i].model) =>
                      log[j].op \notin {"column_exists", "add_field",
                                        "check_column_compatibility"}
            /\ IF i = Len(log)
               THEN pc = "finally" /\ exc = NoExc /\ CurModel = log[i].model
               ELSE /\ log[i + 1].op = "restore_foreign_keys"
                    /\ log[i + 1].model = log[i].model
                    /\ GoesOnAfter(i + 1)

\* C8 witness: table creation failed for the first model of a group and the
\* second model of the group has been processed to its end.
C8_Witness ==
    \E i \in Events("create_model_table") :
        /\ log[i].out = "False"
        /\ log[i].pass = passNo
        /\ Len(ModelsOf(log[i].alias)) = 2
        /\ PlaceOf(log[i].alias, log[i].model) = 1
        /\ \E j \in Events("restore_foreign_keys") :
              /\ j > i
              /\ log[j].pass = passNo
              /\ log[j].model = ModelsOf(log[i].alias)[2]

\* C9: when add_field fails for a field, the error is reported and the run
\* goes on: with the next field of the model, then the next model of the
\* group, then the next connection group.
C9_AddFieldFailureGoesOn ==
    /\ exc.origin # "add_field"
    /\ \A i \in Events("add_field") :
          log[i].out # "ok" =>
              LET m == log[i].model
                  f == log[i].field
                  g == GroupIndex(log[i].alias)
              IN  /\ log[i].pass = passNo =>
                        \E k \in DOMAIN stderr :
                            /\ stderr[k][1] = "Error adding column"
                            /\ stderr[k][2] = m
                  /\ IF f < NumFields(m)
                     THEN IF i = Len(log)
                          THEN /\ pc = "process_field"
                               /\ CurModel = m
                               /\ fi = f + 1
                               /\ exc = NoExc
                          ELSE /\ log[i + 1].op = "column_exists"
                               /\ log[i + 1].model = m
                               /\ log[i + 1].field = f + 1
                     ELSE IF i = Len(log)
                          THEN pc = "finally" /\ CurModel = m /\ exc = NoExc
                          ELSE /\ log[i + 1].op = "restore_foreign_keys"
                               /\ log[i + 1].model = m
                               /\ GoesOnAfter(i + 1)
                  /\ (log[i].pass = passNo /\ g < Len(groups)) =>
                        \/ \E j \in DOMAIN log :
                              /\ j > i
                              /\ log[j].pass = passNo
                              /\ log[j].alias = groups[g + 1].alias
                        \/ gi = g /\ (pc # "idle" \/ exc # NoExc)
                        \/ /\ gi = g + 1
                           /\ \/ pc \in {"schema_editor_enter", "enter_context",
                                         "handle_foreign_keys"}
                              \/ exc.origin = "temporary_table_name"

\* C9 witness: add_field failed for a field that is not the last of its
\* model, in the first of two connection groups, and the run has ended
\* normally after processing a model of the second group.
C9_Witness ==
    /\ pc = "idle"
    /\ result = "ok"
    /\ Len(groups) = 2
    /\ \E i \in Events("add_field") :
          /\ log[i].out # "ok"
          /\ log[i].pass = passNo
          /\ log[i].alias = groups[1].alias
          /\ log[i].field < NumFields(log[i].model)
          /\ \E j \in Events("restore_foreign_keys") :
                /\ j > i
                /\ log[j].pass = passNo
                /\ log[j].alias = groups[2].alias

\* C10: a failure of create_model or add_field never propagates out of the
\* run; the only errors that do are the invalid-schema-name error and the
\* unsupported-vendor error raised by create_schema_if_not_exists.
C10_OnlyFatalErrorsPropagate ==
    /\ exc.origin \notin {"create_model", "add_field"}
    /\ (pc = "idle" /\ result \notin {"none", "ok"}) =>
          /\ result \in {"ValueError", "NotImplementedError"}
          /\ exc.origin = "create_schema_if_not_exists"

\* A schema name the validation is meant to refuse: empty, or with a
\* character that is no ASCII letter, digit, underscore or period.
InvalidSchemaName(schema) ==
    \/ schema = <<>>
    \/ \E i \in 1..Len(schema) : schema[i] \notin SchemaChars

\* The call that has answered is a call of the named function.
Answered(fn) == fncall.fn = fn /\ fnret # NoRet

\* The statements of the given kind among those a call executed.
Statements(executed, kind) ==
    {k \in DOMAIN executed : executed[k][1] = kind}

\* C11: for every vendor and every schema name that is empty or holds a
\* character outside the letters, digits, underscore and period,
\* create_schema_if_not_exists raises ValueError and executes no statement;
\* no such schema name reaches a CREATE SCHEMA statement.
C11_InvalidSchemaRefused ==
    Answered("create_schema_if_not_exists") =>
        /\ InvalidSchemaName(fncall.args[3]) =>
              /\ fnret.raised = "ValueError"
              /\ fnret.executed = <<>>
        /\ \A k \in DOMAIN fnret.executed :
              ~InvalidSchemaName(fnret.executed[k][2])

\* C12: on a SQL Server connection a call of create_schema_if_not_exists
\* with a valid schema name executes one existence query and then one
\* CREATE SCHEMA for that schema exactly when the schema was absent; the call
\* repeated after a create executes no second create.
C12_SqlServerCreatesOnce ==
    ( /\ Answered("create_schema_if_not_exists")
      /\ fncall.args[1] \in {"microsoft", "mssql"}
      /\ ~InvalidSchemaName(fncall.args[3]) ) =>
        LET schema == fncall.args[3]
            ex == fnret.executed
            selects == Statements(ex, "SELECT sys.schemas")
            creates == Statements(ex, "CREATE SCHEMA")
        IN  /\ fnret.raised = "none"
            /\ selects = {1}
            /\ ex[1][2] = schema
            /\ creates = IF schema \in fncall.args[2].schemas THEN {}
                         ELSE {2}
            /\ \A k \in creates : ex[k][2] = schema
            /\ DOMAIN ex = selects \cup creates
            /\ Statements(fncall.prior, "CREATE SCHEMA") # {} => creates = {}

\* C12 witness: the call repeated after a call that created the schema has
\* answered, with the existence query alone.
C12_Witness ==
    /\ Answered("create_schema_if_not_exists")
    /\ fncall.args[1] = "microsoft"
    /\ Statements(fncall.prior, "CREATE SCHEMA") # {}
    /\ fnret.executed = << <<"SELECT sys.schemas", fncall.args[3]>> >>

QualifiedForms ==
    {
      <<<<"s", ".", "t">>,
        <<"s">>, <<"t">>>>,
      <<<<"[", "s", "]", ".", "[", "t", "]">>,
        <<"s">>, <<"t">>>>,
      <<<<"[", "A", "_", "S", "]", ".", "[", "t", "]">>,
        <<"A", "_", "S">>, <<"t">>>>,
      <<<<"\"", "s", "\"", ".", "\"", "t", "\"">>,
        <<"s">>, <<"t">>>>,
      <<<<"'", "s", "'", ".", "'", "t", "'">>,
        <<"s">>, <<"t">>>> }

\* The documented default schema of the three supported vendors.
DocumentedDefault ==
    [postgresql |-> <<"p", "u", "b", "l", "i", "c">>,
     microsoft |-> <<"d", "b", "o">>,
     sqlite |-> <<"m", "a", "i", "n">>]

Dots(name) == {i \in 1..Len(name) : name[i] = "."}

\* The text of a part of an identifier once the brackets (in the bracketed
\* form) and the quotes around it are dropped.
Unwrapped(part, bracketed) ==
    StripQuotes(IF bracketed THEN Strip(part, {"[", "]"}) ELSE part)

\* C15: for an identifier with more than one dot, bracketed or not,
\* parse_table_name splits on the first dot only: the schema is the text
\* before the first dot and the table all the text after it, further dots
\* kept.
C15_SplitsOnFirstDot ==
    ( /\ Answered("parse_table_name")
      /\ Cardinality(Dots(fncall.args[2])) > 1 ) =>
        LET name == fncall.args[2]
            first == CHOOSE i \in Dots(name) : \A j \in Dots(name) : i <= j
            bracketed == Contains(name, "[") /\ Contains(name, "]")
        IN  /\ fnret.raised = "none"
            /\ fnret.value[1] =
                  Unwrapped(SubSeq(name, 1, first - 1), bracketed)
            /\ fnret.value[2] =
                  Unwrapped(SubSeq(name, first + 1, Len(name)), bracketed)
            /\ Cardinality(Dots(fnret.value[2])) =
                  Cardinality(Dots(name)) - 1

\* C15 witness: s.t.x has been parsed to (s, t.x), or [s].[t.x] has.
C15_Witness ==
    /\ Answered("parse_table_name")
    /\ fncall.args[2] \in { <<"s", ".", "t", ".", "x">>,
                            <<"[", "s", "]", ".", "[", "t", ".", "x", "]">> }
    /\ fnret.value = << <<"s">>, <<"t", ".", "x">> >>

\* C16: parse_table_name raises for no vendor tag and no identifier: it
\* always answers a (schema, table) pair of strings.
C16_ParseNeverRaises ==
    Answered("parse_table_name") =>
        /\ fnret.raised = "none"
        /\ Len(fnret.value) = 2
        /\ fnret.value[1] # NoneVal
        /\ fnret.value[2] # NoneVal

\* C17: for a bare identifier parse_table_name answers schema main when the
\* vendor tag is "sqlite3" and schema public for every other vendor tag,
\* with the identifier as the table.
C17_BareSchemaAsTested ==
    (Answered("parse_table_name") /\ Bare(fncall.args[2])) =>
        fnret = Ret(<< IF fncall.args[1] = "sqlite3"
                       THEN <<"m", "a", "i", "n">>
                       ELSE <<"p", "u", "b", "l", "i", "c">>,
                       fncall.args[2] >>)

\* The schemas parse_table_name finds in the bracketed and the dotted
\* identifier of the fixtures' kind.
FixtureSchemas(v) ==
    { parse_table_name(v, name).value[1] :
        name \in { <<"[", "A", "_", "S", "]", ".", "[", "t", "]">>,
                   <<"s", ".", "t">> } }

\* C18: for the schema parsed from the bracketed or the dotted identifier,
\* create_schema_if_not_exists executes at least one statement whenever the
\* vendor tag is not "sqlite3".
C18_SchemaStatementAsTested ==
    ( /\ Answered("create_schema_if_not_exists")
      /\ fncall.args[1] # "sqlite3"
      /\ fncall.args[3] \in FixtureSchemas(fncall.args[1]) ) =>
        Len(fnret.executed) >= 1

\* A type string as the comparison sees it: lowercased, absent or empty
\* becoming the empty string.
Normalised(t) == IF t = NoneVal \/ t = <<>> THEN <<>> ELSE Lower(t)

\* The classes of the compatibility table a normalised type belongs to.
ClassesOf(t) == {k \in DOMAIN compatible_types : t \in compatible_types[k]}

\* C19: types_are_compatible answers True exactly when both types, once
\* lowercased, belong to the same class of the compatibility table:
\* (INTEGER, int) and (varchar, text) are compatible, (int, varchar) is not,
\* and an empty or absent pair is not.
C19_TypesCompatibleByClass ==
    Answered("types_are_compatible") =>
        LET existing == fncall.args[1]
            expected == fncall.args[2]
        IN  /\ fnret.value =
                  (ClassesOf(Normalised(existing))
                       \cap ClassesOf(Normalised(expected)) # {})
            /\ ( /\ existing = <<"I", "N", "T", "E", "G", "E", "R">>
                 /\ expected = <<"i", "n", "t">> ) => fnret.value
            /\ ( /\ existing = <<"v", "a", "r", "c", "h", "a", "r">>
                 /\ expected = <<"t", "e", "x", "t">> ) => fnret.value
            /\ ( /\ existing = <<"i", "n", "t">>
                 /\ expected = <<"v", "a", "r", "c", "h", "a", "r">> ) => ~fnret.value
            /\ ( /\ existing \in {NoneVal, <<>>}
                 /\ expected \in {NoneVal, <<>>} ) => ~fnret.value

\* C19 witness: (INTEGER, int) has been answered compatible.
C19_Witness ==
    /\ Answered("types_are_compatible")
    /\ fncall.args = << <<"I", "N", "T", "E", "G", "E", "R">>,
                        <<"i", "n", "t">> >>
    /\ fnret.value

\* Whether a name ends with the three characters _id.
HasIdSuffix(name) ==
    /\ Len(name) >= 3
    /\ name[Len(name) - 2] = "_"
    /\ name[Len(name) - 1] = "i"
    /\ name[Len(name)] = "d"

\* C20: process_field resolves a field that is no foreign key to its
\* db_column if set, else its name; a foreign key to exactly its db_column if
\* set, else to its name with _id appended unless the name ends with _id.
C20_ColumnNameResolution ==
    Answered("process_field") =>
        LET name == fncall.args[1]
            db_column == fncall.args[2]
            is_fk == fncall.args[3]
            override == db_column # NoneVal /\ db_column # <<>>
        IN  fnret.value =
                IF override THEN db_column
                ELSE IF is_fk /\ ~HasIdSuffix(name)
                THEN name \o <<"_", "i", "d">>
                ELSE name

\* C20 witness: a foreign key with an explicit db_column has been resolved
\* to it unchanged, or one without to its name with _id appended.
C20_Witness ==
    /\ Answered("process_field")
    /\ fncall.args[3]
    /\ \/ /\ fncall.args[2] = <<"m", "o", "d", "e", "l", "_", "I", "D">>
          /\ fnret.value = <<"m", "o", "d", "e", "l", "_", "I", "D">>
       \/ /\ fncall.args[1] = <<"r", "e", "l", "a", "t", "e", "d", "_", "m", "o", "d", "e", "l">>
          /\ fncall.args[2] = NoneVal
          /\ fnret.value =
               <<"r", "e", "l", "a", "t", "e", "d", "_", "m", "o", "d", "e", "l", "_", "i", "d">>

\* The place of model m in sequence ms.
PlaceIn(ms, m) == CHOOSE k \in 1..Len(ms) : ms[k] = m

\* C21: the models collected for processing are exactly the models whose
\* managed flag is False, each once and in its app's order, and no call of
\* the command is ever made for a managed model.
C21_ManagedModelsFilteredOut ==
    /\ passNo > 0 =>
          /\ \A m \in Models :
                (\E k \in DOMAIN models_to_process :
                    models_to_process[k] = m) <=> ~ModelDecl(m).managed
          /\ \A j, k \in DOMAIN models_to_process :
                models_to_process[j] = models_to_process[k] => j = k
          /\ \A j, k \in DOMAIN models_to_process :
                LET a == models_to_process[j]
                    b == models_to_process[k]
                    app == ModelDecl(a).app_label
                IN  (j < k /\ ModelDecl(b).app_label = app) =>
                        PlaceIn(AppModels(app), a) < PlaceIn(AppModels(app), b)
    /\ \A m \in Models :
          ModelDecl(m).managed => \A i \in DOMAIN log : log[i].model # m

\* C21 witness: a run that collected from the app holding a managed model
\* has ended after creating the unmanaged model's table.
C21_Witness ==
    /\ pc = "idle"
    /\ result = "ok"
    /\ \E m \in Models :
          ModelDecl(m).managed /\ ModelDecl(m).app_label = ModelDecl(1).app_label
    /\ \E i \in Events("create_model") : log[i].model = 1 /\ log[i].out = "ok"

\* C22: for every identifier parse_table_name parses, the schema is a
\* non-empty string on a vendor with schemas (postgresql, microsoft, mssql),
\* and on sqlite it is always main, whatever the form of the identifier.
C22_SchemaOfIdentifier ==
    (Answered("parse_table_name") /\ fnret.raised = "none") =>
        /\ fncall.args[1] \in {"postgresql", "microsoft", "mssql"} =>
              fnret.value[1] \notin {<<>>, NoneVal}
        /\ fncall.args[1] = "sqlite" =>
              fnret.value[1] = <<"m", "a", "i", "n">>

\* The statements and calls through which a run touches a database.
SchemaStatements ==
    {"CREATE SCHEMA IF NOT EXISTS", "SELECT sys.schemas", "CREATE SCHEMA"}

\* cat holds every schema, table and column that before holds.
Holds(cat, earlier) ==
    /\ earlier.schemas \subseteq cat.schemas
    /\ earlier.tables \subseteq cat.tables
    /\ earlier.columns \subseteq cat.columns

\* C23: the catalog only grows: the only mutations a run issues are create
\* schema, create table and add column, every schema, table and column
\* present before a run is present during and after it, and a reported type
\* mismatch is followed by no DDL.
C23_CatalogOnlyGrows ==
    /\ passNo > 0 => \A a \in Aliases : Holds(catalog[a], pre.catalog[a])
    /\ \A i \in Events("execute") : log[i].arg[1] \in SchemaStatements
    /\ \A i \in Events("check_column_compatibility") :
          i < Len(log) =>
              /\ log[i + 1].op \in {"column_exists", "restore_foreign_keys"}
              /\ log[i + 1].op = "column_exists" =>
                    \/ log[i + 1].field = log[i].field + 1
                    \/ log[i + 1].model # log[i].model
                    \/ log[i + 1].pass # log[i].pass

\* C23 witness: the second run has ended on a database that held tables
\* before it, after reporting on a column and adding another.
C23_Witness ==
    /\ pc = "idle"
    /\ passNo = 2
    /\ \E a \in Aliases : pre.catalog[a].columns # {}
    /\ \E i \in Events("check_column_compatibility") : log[i].pass = 2
    /\ \E i \in Events("add_field") : log[i].out = "ok"

\* No pass is running and at least one has run to its end.
Finished ==
    /\ \A t \in Passes : ~Running(t)
    /\ \E t \in Passes : passes[t].at = "done"

\* The table names and the foreign-key settings are those the models were
\* declared with.
Restored ==
    /\ db_table = pre.db_table
    /\ \A x \in FieldIds :
          /\ fields[x].db_constraint = pre.fields[x].db_constraint
          /\ fields[x].on_delete = pre.fields[x].on_delete

\* What temporary_table_name writes for a model declared with name.
Rewritten(name) ==
    LET p == parse_table_name(RaceVendor, name)
    IN  get_formatted_table_name(RaceVendor, p.value[1], p.value[2])

\* C24: a pass that ran while no other pass was running (alone, or one after
\* the other) ends with every db_table and every foreign key's db_constraint
\* and on_delete as declared; when passes did overlap, what is left behind
\* once all have finished is, per model, the declared name or the override
\* of one pass, and per foreign key the declared or the suppressed setting.
\* That overlapping passes can leave an override behind is C24_Witness.
C24_SinglePassRestores ==
    Finished =>
        /\ (\A t \in Passes : ~passes[t].met) => Restored
        /\ \A m \in Models :
              db_table[m] \in {pre.db_table[m], Rewritten(pre.db_table[m])}
        /\ \A x \in FieldIds :
              \/ /\ fields[x].db_constraint = pre.fields[x].db_constraint
                 /\ fields[x].on_delete = pre.fields[x].on_delete
              \/ /\ ModelDecl(x[1]).fields[x[2]].is_fk
                 /\ fields[x].db_constraint = FALSE
                 /\ fields[x].on_delete = "DO_NOTHING"

\* Both passes have finished after an interleaving of their steps, and a
\* model's db_table and a foreign key's settings differ from the declared.
C24_Witness ==
    /\ \A t \in Passes : passes[t].at = "done" /\ passes[t].met
    /\ \E m \in Models : db_table[m] # pre.db_table[m]
    /\ \E x \in FieldIds :
          /\ pre.fields[x].db_constraint
          /\ ~fields[x].db_constraint
          /\ fields[x].on_delete # pre.fields[x].on_delete

\* The positions from the first statement of create_table_for_model for a
\* model of the group to the end of its finally clause.
InCreateTableForModel == {"handle_foreign_keys"} \cup InsideModel

HasInfix(s, infix) ==
    \E i \in 1..(Len(s) - Len(infix) + 1) :
        SubSeq(s, i, i + Len(infix) - 1) = infix

\* The vendor's quoted form of a qualified name: "schema"."table",
\* [schema].[table], and schema.table where the vendor has no quoting branch.
VendorQuoted(v, name) ==
    IF v = "postgresql"
    THEN /\ Len(name) >= 5
         /\ Head(name) = "\"" /\ name[Len(name)] = "\""
         /\ HasInfix(name, <<"\"", ".", "\"">>)
    ELSE IF v \in {"microsoft", "mssql"}
    THEN /\ Len(name) >= 5
         /\ Head(name) = "[" /\ name[Len(name)] = "]"
         /\ HasInfix(name, <<"]", ".", "[">>)
    ELSE Contains(name, ".")

\* C25: while create_table_for_model runs for any model of a connection
\* group whose connection is not sqlite (from the first model's first
\* statement to the last model's finally clause), every model of the group
\* has its db_table in the vendor's quoted schema.table form, made of the
\* schema and table parsed from the declared name; a model routed to a
\* sqlite connection has its declared db_table in every state.
C25_RewritesActiveForGroup ==
    /\ (pc \in InCreateTableForModel /\ CurVendor # "sqlite") =>
          \A k \in 1..Len(CurModels) :
             LET m == CurModels[k]
                 p == parse_table_name(CurVendor, pre.db_table[m])
             IN  /\ p.raised = "none"
                 /\ VendorQuoted(CurVendor, db_table[m])
                 /\ db_table[m] = get_formatted_table_name(CurVendor,
                                      p.value[1], p.value[2])
    /\ \A m \in Unmanaged :
          vendor[DbAlias(mapping, m)] = "sqlite" =>
              db_table[m] = pre.db_table[m]

\* The last model of a two-model group on a quoting connection is being
\* processed, after the first model's fields were worked through, and the
\* first model's rewrite is still in place.
C25_Witness ==
    /\ pc = "process_field"
    /\ CurVendor \in {"postgresql", "microsoft"}
    /\ Len(CurModels) = 2
    /\ mi = 2
    /\ db_table[CurModels[1]] # pre.db_table[CurModels[1]]
    /\ \E i \in Events("add_field") :
          log[i].pass = passNo /\ log[i].model = CurModels[1]

IsForeignKey(x) == ModelDecl(x[1]).fields[x[2]].is_fk

\* The positions of create_table_for_model from which schema_editor's
\* create_model and add_field are invoked, and those leading to them.
BeforeRestore == {"parse_table_name", "ensure_schema", "create_model_table",
                  "process_field"}

\* C26: wherever create_table_for_model stands between handle_foreign_keys
\* and its finally clause (create_model and add_field are invoked from
\* there), every foreign key of the model has db_constraint False and
\* on_delete DO_NOTHING, and every other field of any model is as it was
\* before handle_foreign_keys was called, but for the db_column that
\* process_field sets on a field of the same model; for a managed model
\* handle_foreign_keys answers the empty list and the fields it was given.
C26_SuppressionCoversModel ==
    /\ pc \in BeforeRestore =>
          \A x \in FieldIds :
             IF x[1] = CurModel /\ IsForeignKey(x)
             THEN /\ fields[x].db_constraint = FALSE
                  /\ fields[x].on_delete = "DO_NOTHING"
             ELSE /\ fields[x].db_constraint = fk_before[x].db_constraint
                  /\ fields[x].on_delete = fk_before[x].on_delete
                  /\ x[1] # CurModel => fields[x] = fk_before[x]
    /\ pc = "parse_table_name" =>
          \A x \in FieldIds : fields[x].db_column = fk_before[x].db_column
    /\ \A m \in Models :
          ModelDecl(m).managed =>
              handle_foreign_keys(m, fields) = <<(<<>>), fields>>

\* add_field has been invoked for a field of the model and the loop stands
\* before its next field, and a foreign key of the model that was declared
\* with a constraint and a policy other than DO_NOTHING is suppressed.
C26_Witness ==
    /\ pc = "process_field"
    /\ \E i \in Events("add_field") :
          log[i].pass = passNo /\ log[i].model = CurModel /\ log[i].out = "ok"
    /\ \E x \in FieldIds :
          /\ x[1] = CurModel /\ IsForeignKey(x)
          /\ pre.fields[x].db_constraint
          /\ pre.fields[x].on_delete # "DO_NOTHING"
          /\ ~fields[x].db_constraint

\* The log entry that opens the latest call of create_table_for_model: the
\* call in progress, or the one that ended last.
LatestCall ==
    LET calls == Events("create_table_for_model")
    IN  CHOOSE i \in calls : \A k \in calls : k <= i

\* The calls of create_table_for_model made in pass p, as log entries, and
\* those made for model m.
Started(p) == {i \in Events("create_table_for_model") : log[i].pass = p}
StartedFor(p, m) == {i \in Started(p) : log[i].model = m}

\* The groups a model was put in.
GroupsHolding(m) ==
    {g \in DOMAIN groups :
        \E k \in DOMAIN groups[g].models : groups[g].models[k] = m}

\* Each collected model is in one connection group, once, the group of the
\* alias APP_TO_DATABASE_MAPPING gives for its app label, else of 'default';
\* the models of a group are in collection order.
GroupedByConnection ==
    /\ \A k \in DOMAIN models_to_process :
          LET m == models_to_process[k]
              routed == {p \in mapping : p[1] = ModelDecl(m).app_label}
          IN  /\ Cardinality(GroupsHolding(m)) = 1
              /\ \A g \in GroupsHolding(m) :
                    /\ Cardinality({j \in DOMAIN groups[g].models :
                                       groups[g].models[j] = m}) = 1
                    /\ IF routed = {} THEN groups[g].alias = "default"
                       ELSE \E p \in routed : groups[g].alias = p[2]
    /\ \A g, h \in DOMAIN groups : groups[g].alias = groups[h].alias => g = h
    /\ \A g \in DOMAIN groups :
          \A j, k \in DOMAIN groups[g].models :
             j < k => PlaceIn(models_to_process, groups[g].models[j])
                         < PlaceIn(models_to_process, groups[g].models[k])

\* The log grows by appending, so what holds of the latest call of
\* create_table_for_model and the calls before it holds of every two calls.
\* No model is processed twice in a pass; the calls of a pass go group by
\* group and inside a group in its order, each on its group's connection;
\* while a group is processed, nothing of an earlier group is left open: no
\* context of the ExitStack and no rewritten db_table.
ProcessedInSequence ==
    /\ LET calls == Events("create_table_for_model")
       IN  calls # {} =>
              LET j == LatestCall
                  here == GroupIndex(log[j].alias)
              IN  /\ \E k \in DOMAIN groups[here].models :
                        groups[here].models[k] = log[j].model
                  /\ \A i \in calls :
                        (i < j /\ log[i].pass = log[j].pass) =>
                           /\ log[i].model # log[j].model
                           /\ GroupIndex(log[i].alias) <= here
                           /\ log[i].alias = log[j].alias =>
                                 PlaceOf(log[i].alias, log[i].model)
                                    < PlaceOf(log[j].alias, log[j].model)
    /\ pc \in {"enter_context"} \cup InCreateTableForModel =>
          /\ \A s \in DOMAIN stack :
                \E k \in DOMAIN CurModels : CurModels[k] = stack[s].model
          /\ \A g \in 1..(gi - 1) :
                \A k \in DOMAIN groups[g].models :
                   /\ db_table[groups[g].models[k]] =
                         pre.db_table[groups[g].models[k]]
                   /\ StartedFor(passNo, groups[g].models[k]) # {}

\* C27 as stated: whenever process_models turns to a connection group the
\* grouping is as described, the calls are in sequence, and when a run has
\* ended every collected model was processed exactly once in it.
C27_EveryModelOncePerRun ==
    passNo > 0 =>
       /\ pc = "schema_editor_enter" => GroupedByConnection
       /\ ProcessedInSequence
       /\ pc = "idle" =>
             \A k \in DOMAIN models_to_process :
                Cardinality(StartedFor(passNo, models_to_process[k])) = 1

\* C27, amended: whenever process_models turns to a connection group the
\* grouping is as described; the calls are in sequence in every run; every
\* collected model is processed at most once per run, and exactly once in a
\* run that ends without an exception leaving process_models.
C27_GroupedAndSequenced ==
    passNo > 0 =>
       /\ pc = "schema_editor_enter" => GroupedByConnection
       /\ ProcessedInSequence
       /\ (pc = "idle" /\ result = "ok") =>
             \A k \in DOMAIN models_to_process :
                /\ Cardinality(StartedFor(passNo, models_to_process[k])) = 1
                /\ Processed(passNo, models_to_process[k])

\* A run over two connections has ended without an exception: the model
\* routed by APP_TO_DATABASE_MAPPING was processed on 'alternate' after the
\* model of 'default'.
C27_Witness ==
    /\ pc = "idle" /\ result = "ok" /\ passNo > 0
    /\ Len(groups) = 2
    /\ \E i, j \in Started(passNo) :
          /\ i < j
          /\ log[i].alias = "default"
          /\ log[j].alias = "alternate"

\* The log entries of the call of create_table_for_model that entry i opens:
\* those up to the next call's entry, or to the end of the log.
CallEnd(i) ==
    LET later == {j \in Events("create_table_for_model") : j > i}
    IN  IF later = {} THEN Len(log)
        ELSE (CHOOSE j \in later : \A k \in later : j <= k) - 1

Segment(i) == (i + 1)..CallEnd(i)

\* The call that entry i opens has not reached the end of its finally clause.
Ongoing(i) ==
    /\ CallEnd(i) = Len(log)
    /\ log[i].pass = passNo
    /\ pc \in InsideModel

\* The steps of create_table_for_model in the order of its statements.
StepRank(op) ==
    CASE op = "create_table_for_model" -> 0
      [] op = "execute" -> 1
      [] op = "table_exists" -> 2
      [] op = "create_model" -> 3
      [] op = "create_model_table" -> 4
      [] op \in {"column_exists", "add_field",
                 "check_column_compatibility"} -> 5
      [] op = "restore_foreign_keys" -> 6

\* Vendors for which create_schema_if_not_exists sends a statement.
SendsSchemaStatement == {"postgresql", "microsoft", "mssql"}

\* C28: the log grows by appending, so what holds of the latest call in
\* every state holds of every call.  Within the latest call of
\* create_table_for_model the steps come in the order suppression, schema
\* statements, table_exists, create_model, create_model_table's answer,
\* field loop, restore; there is at most one table_exists and one
\* create_model; the table is looked up only after the schema statements
\* when the parsed schema is not empty; a column is looked up or added only
\* after create_model_table answered True, which follows a table found
\* present or a create_model that succeeded; a call that has ended, by
\* whatever path, has restore_foreign_keys as its last step, once; and the
\* call before it ended with its restore.
C28_StepOrder ==
    Events("create_table_for_model") # {} =>
       LET i == LatestCall
           seg == (i + 1)..Len(log)
           answered == {j \in seg : log[j].op = "create_model_table"}
           looked == {j \in seg : log[j].op = "table_exists"}
           made == {j \in seg : log[j].op = "create_model"}
           restored == {j \in seg : log[j].op = "restore_foreign_keys"}
       IN  /\ i > 1 => log[i - 1].op = "restore_foreign_keys"
           /\ \A j \in seg :
                 /\ log[j].model = log[i].model
                 /\ log[j].pass = log[i].pass
                 /\ StepRank(log[j - 1].op) <= StepRank(log[j].op)
                 /\ log[j].op \in {"column_exists", "add_field"} =>
                       \E k \in answered : k < j /\ log[k].out = "True"
           /\ Cardinality(looked) <= 1
           /\ Cardinality(made) <= 1
           /\ \A j \in looked :
                 (/\ vendor[log[i].alias] \in SendsSchemaStatement
                  /\ Truthy(log[j].arg[1])) =>
                    \E k \in (i + 1)..(j - 1) :
                       /\ log[k].op = "execute"
                       /\ log[k].arg[2] = log[j].arg[1]
           /\ \A j \in answered :
                 log[j].out = "True" =>
                    \/ \E k \in looked : log[k].out = "True"
                    \/ \E k \in made : log[k].out = "ok"
           /\ IF pc \in InsideModel THEN restored = {}
              ELSE restored = {Len(log)} /\ Len(log) > i

\* One call went through every step (schema statement, table created,
\* columns looked up, restore), and another call ended in its finally
\* clause before create_model_table had answered.
C28_Witness ==
    /\ \E i \in Events("create_table_for_model") :
          /\ ~Ongoing(i)
          /\ \E j \in Segment(i) : log[j].op = "execute"
          /\ \E j \in Segment(i) : log[j].op = "create_model"
                                   /\ log[j].out = "ok"
          /\ \E j \in Segment(i) : log[j].op = "column_exists"
    /\ \E i \in Events("create_table_for_model") :
          /\ ~Ongoing(i)
          /\ \A j \in Segment(i) : log[j].op # "create_model_table"

\* C29: on a postgresql or microsoft connection, for every identifier that
\* parse_table_name parses, the schema and table create_table_for_model
\* parses from the rewritten db_table are those parsed from the declared
\* identifier.
C29_ParseFormatRoundTrip ==
    Answered("create_table_for_model") =>
        LET p == parse_table_name(fncall.args[1], fncall.args[2])
        IN  p.raised = "none" => fnret = p

\* C30: for every vendor tag that create_schema_if_not_exists sends a schema
\* statement for and get_formatted_table_name quotes the name for,
\* get_default_schema answers a non-empty schema, and table_exists,
\* column_exists and get_column_type each execute a catalog query before
\* they read a row.
C30_VendorDispatchConsistent ==
    (/\ Answered("connection.vendor")
     /\ fncall.args[1] \in SendsSchemaStatement
     /\ VendorQuoted(fncall.args[1], fnret.value.formatted)) =>
        /\ fnret.value.get_default_schema \notin {NoneVal, <<>>}
        /\ fnret.value.table_exists # <<>>
        /\ fnret.value.column_exists # <<>>
        /\ fnret.value.get_column_type # <<>>

====
